---- MODULE Spec2Model ----
(***************************************************************************)
(* Verification model of sv2-uniffi: the UniFFI wrappers around the        *)
(* Stratum V2 channel engine (Standard / Extended / Group channel servers) *)
(* and around the Noise-encrypted frame codec (codec state, encoder,       *)
(* decoder).                                                               *)
(*                                                                         *)
(* The wrappers (src/src/...) are modelled from their source.  The engine  *)
(* they call (channels_sv2, codec_sv2, noise_sv2) is not part of src/; the *)
(* operators named Inner... model it from the design specification.        *)
(***************************************************************************)
EXTENDS Integers, Sequences, FiniteSets, TLC

(***************************************************************************)
(* Bounds of the model.                                                    *)
(***************************************************************************)
MaxTargetVal == 2      \* targets and hashes are numbers 0 .. MaxTargetVal (+1 for hashes)
MaxHashrate == 2       \* nominal hashrates offered: 0 .. MaxHashrate (0 is not positive)
MaxJobId == 2          \* job ids handed out by one job factory: 1 .. MaxJobId
MaxTemplateId == 2     \* template ids 1 .. MaxTemplateId
MaxSeq == 1            \* share sequence numbers 0 .. MaxSeq
MaxNonce == 1          \* share nonces 0 .. MaxNonce

VARIABLES
    \* ---- one channel server object (Sv2StandardChannelServer,
    \*      Sv2ExtendedChannelServer or Sv2GroupChannelServer)
    kind,                       \* which wrapper the object is
    opened,                     \* TRUE once the constructor returned Ok(Self)
    max_target,                 \* the max target the channel was opened with
    target,                     \* channel.get_target()
    nominal_hashrate,
    share_batch_size,
    future_jobs,                \* job store: future jobs (map job id -> job)
    active_job,                 \* job store: the active slot
    past_jobs,                  \* job store: past jobs, oldest first
    future_template_to_job_id,  \* job store: template id -> future job id
    chain_tip,                  \* prev-hash context of the channel
    job_id_factory,             \* next job id the channel's factory issues
    version_rolling_allowed,
    share_accounting,           \* last sequence number / accepted / work sum
    standard_channel_ids,       \* Group only: member ids
    \* ---- one encrypted connection: an Sv2CodecState and an Sv2Decoder at
    \*      each end, and the bytes in flight
    codec_state,                \* side -> Sv2CodecState.inner
    decoder,                    \* side -> Sv2Decoder.inner
    buffer_size,                \* side -> Sv2Decoder.buffer_size
    wire,                       \* side -> encrypted bytes sent to it, not yet read
    initiator_frame,            \* the payload the last step_0 returned
    responder_frame,            \* the payload the last step_1 returned
    \* ---- one extranonce prefix factory object
    \*      (Sv2ExtranoncePrefixFactoryExtended or ...Standard)
    factory,                    \* the object's inner ExtendedExtranonce
    issued,                     \* the prefixes its calls have returned
    returned,                   \* how many calls have returned a prefix
    \* ---- threads calling into the channel object and into one
    \*      Sv2ExtendedJob object
    pc,                         \* thread -> where it is in its call
    arg,                        \* thread -> the argument of its call
    channel_lock,               \* holder of the channel's Mutex (self.inner)
    job_lock,                   \* holder of the job's Mutex (extended_job.inner)
    poisoned,                   \* the Mutexes a thread panicked in while it held them
    ret                         \* what the last wrapper call returned

chanVars == <<kind, opened, max_target, target, nominal_hashrate, share_batch_size,
              version_rolling_allowed, future_jobs, active_job, past_jobs, future_template_to_job_id,
              chain_tip, job_id_factory, share_accounting, standard_channel_ids>>

codecVars == <<codec_state, decoder, buffer_size, wire, initiator_frame, responder_frame>>

prefixVars == <<factory, issued, returned>>

threadVars == <<pc, arg, channel_lock, job_lock, poisoned>>

vars == <<chanVars, codecVars, prefixVars, threadVars, ret>>

(***************************************************************************)
(* Values crossing the FFI boundary.                                       *)
(***************************************************************************)
\* A Vec<u8> that is meant to hold a 256-bit number: its length in bytes and
\* the number its bytes spell.
U256Len == 32

ByteVec(lens, vals) == [len : lens, val : vals]

\* Option<Vec<u8>>
NoneVec == [some |-> FALSE, len |-> 0, val |-> 0]
SomeVec(v) == [some |-> TRUE, len |-> v.len, val |-> v.val]

Targets == 0 .. MaxTargetVal
Hashrates == 0 .. MaxHashrate
TemplateIds == 1 .. MaxTemplateId
JobIds == 1 .. MaxJobId
SeqNums == 0 .. MaxSeq
VecLens == {U256Len - 1, U256Len}

NoJob == [id |-> 0, tpl |-> 0, origin |-> "None"]
NoChainTip == [set |-> FALSE, prev_hash |-> 0, target |-> 0]

\* a call's outcome: the operation, the Ok-value or the error's name, the
\* payload of the returned value, and the share the call credited (if any)
NoShare == [kind |-> "None"]
Ret(op, res, v, credited) == [op |-> op, res |-> res, v |-> v, credited |-> credited]

(***************************************************************************)
(* Message translation (src/src/messages/mod.rs), for the kinds the        *)
(* channel servers translate.  A byte vector converts to a fixed-width or  *)
(* length-prefixed field only when its length fits.                        *)
(***************************************************************************)
B0255Max == 255
B032Max == 32

ConvOk(m) == [ok |-> TRUE, err |-> "None", msg |-> m]
ConvErr(e) == [ok |-> FALSE, err |-> e, msg |-> [kind |-> "None"]]

\* A string is the sequence of its parts: "a" is one ASCII byte, "a*254" a
\* run of 254 ASCII bytes, "U+FFFD" the three bytes that encode the
\* replacement character, "0xFF" a byte that is not UTF-8.  A String of the
\* boundary holds no "0xFF"; a Str0255 of the engine holds any bytes, up to
\* 255 of them.
StrByteLen(str) ==
    LET n(u) == IF u = "a*254" THEN 254 ELSE IF u = "U+FFFD" THEN 3 ELSE 1
        sum[i \in 0 .. Len(str)] == IF i = 0 THEN 0 ELSE sum[i - 1] + n(str[i])
    IN  sum[Len(str)]

\* String::from_utf8_lossy(bytes).to_string(): every byte that is not UTF-8
\* becomes the replacement character
from_utf8_lossy(bytes) ==
    [i \in 1 .. Len(bytes) |-> IF bytes[i] = "0xFF" THEN "U+FFFD" ELSE bytes[i]]

\* every element of a merkle path must be exactly 32 bytes (U256)
MerklePathConverts(path) == \A i \in 1 .. Len(path) : path[i] = U256Len

\* a translation that tags a NewTemplate as a SetNewPrevHash
sv2_message_to_inner_retagging(m) ==
    CASE m.kind = "NewTemplate" ->
            IF ~MerklePathConverts(m.merkle_path) \/ m.coinbase_prefix_len > B0255Max
            THEN ConvErr("FailedToSerializeByteArray")
            ELSE ConvOk([kind |-> "TemplateDistribution.SetNewPrevHash",
                         template_id |-> m.template_id,
                         future_template |-> m.future_template,
                         coinbase_prefix_len |-> m.coinbase_prefix_len,
                         merkle_path |-> m.merkle_path])
      [] m.kind = "SetNewPrevHashTemplateDistribution" ->
            IF m.prev_hash.len # U256Len \/ m.target.len # U256Len
            THEN ConvErr("FailedToSerializeByteArray")
            ELSE ConvOk([kind |-> "TemplateDistribution.SetNewPrevHash",
                         template_id |-> m.template_id,
                         prev_hash |-> m.prev_hash.val,
                         target |-> m.target.val])
      [] m.kind = "SetCustomMiningJob" ->
            IF ~MerklePathConverts(m.merkle_path) \/ m.prev_hash.len # U256Len
            THEN ConvErr("FailedToSerializeByteArray")
            ELSE ConvOk([kind |-> "Mining.SetCustomMiningJob",
                         prev_hash |-> m.prev_hash.val,
                         merkle_path |-> m.merkle_path])
      [] m.kind = "SubmitSharesStandard" ->
            ConvOk([kind |-> "Mining.SubmitSharesStandard",
                    sequence_number |-> m.sequence_number,
                    job_id |-> m.job_id,
                    nonce |-> m.nonce,
                    rolled |-> m.rolled])
      [] m.kind = "SubmitSharesExtended" ->
            IF m.extranonce_len > B032Max
            THEN ConvErr("FailedToSerializeByteArray")
            ELSE ConvOk([kind |-> "Mining.SubmitSharesExtended",
                         sequence_number |-> m.sequence_number,
                         job_id |-> m.job_id,
                         nonce |-> m.nonce,
                         rolled |-> m.rolled,
                         extranonce_len |-> m.extranonce_len])
      [] m.kind = "Reconnect" ->
            IF StrByteLen(m.new_host) > B0255Max
            THEN ConvErr("FailedToSerializeString")
            ELSE ConvOk([kind |-> "Common.Reconnect",
                         new_host |-> m.new_host,
                         new_port |-> m.new_port])

\* sv2_message_to_inner: the internal message of an external one, or the
\* error of the field that does not fit
sv2_message_to_inner(m) ==
    CASE m.kind = "NewTemplate" ->
            IF ~MerklePathConverts(m.merkle_path) \/ m.coinbase_prefix_len > B0255Max
            THEN ConvErr("FailedToSerializeByteArray")
            ELSE ConvOk([kind |-> "TemplateDistribution.NewTemplate",
                         template_id |-> m.template_id,
                         future_template |-> m.future_template,
                         coinbase_prefix_len |-> m.coinbase_prefix_len,
                         merkle_path |-> m.merkle_path])
      [] m.kind = "SetNewPrevHashTemplateDistribution" ->
            IF m.prev_hash.len # U256Len \/ m.target.len # U256Len
            THEN ConvErr("FailedToSerializeByteArray")
            ELSE ConvOk([kind |-> "TemplateDistribution.SetNewPrevHash",
                         template_id |-> m.template_id,
                         prev_hash |-> m.prev_hash.val,
                         target |-> m.target.val])
      [] m.kind = "SetCustomMiningJob" ->
            IF ~MerklePathConverts(m.merkle_path) \/ m.prev_hash.len # U256Len
            THEN ConvErr("FailedToSerializeByteArray")
            ELSE ConvOk([kind |-> "Mining.SetCustomMiningJob",
                         prev_hash |-> m.prev_hash.val,
                         merkle_path |-> m.merkle_path])
      [] m.kind = "SubmitSharesStandard" ->
            ConvOk([kind |-> "Mining.SubmitSharesStandard",
                    sequence_number |-> m.sequence_number,
                    job_id |-> m.job_id,
                    nonce |-> m.nonce,
                    rolled |-> m.rolled])
      [] m.kind = "SubmitSharesExtended" ->
            IF m.extranonce_len > B032Max
            THEN ConvErr("FailedToSerializeByteArray")
            ELSE ConvOk([kind |-> "Mining.SubmitSharesExtended",
                         sequence_number |-> m.sequence_number,
                         job_id |-> m.job_id,
                         nonce |-> m.nonce,
                         rolled |-> m.rolled,
                         extranonce_len |-> m.extranonce_len])
      [] m.kind = "Reconnect" ->
            IF StrByteLen(m.new_host) > B0255Max
            THEN ConvErr("FailedToSerializeString")
            ELSE ConvOk([kind |-> "Common.Reconnect",
                         new_host |-> m.new_host,
                         new_port |-> m.new_port])

\* the external message of an internal message
inner_to_sv2_message(im) ==
    CASE im.kind = "TemplateDistribution.NewTemplate" ->
            [kind |-> "NewTemplate",
             template_id |-> im.template_id,
             future_template |-> im.future_template,
             merkle_path |-> im.merkle_path,
             coinbase_prefix_len |-> im.coinbase_prefix_len]
      [] im.kind = "TemplateDistribution.SetNewPrevHash" ->
            [kind |-> "SetNewPrevHashTemplateDistribution",
             template_id |-> im.template_id,
             prev_hash |-> [len |-> U256Len, val |-> im.prev_hash],
             target |-> [len |-> U256Len, val |-> im.target]]
      [] im.kind = "Mining.SetCustomMiningJob" ->
            [kind |-> "SetCustomMiningJob",
             prev_hash |-> [len |-> U256Len, val |-> im.prev_hash],
             merkle_path |-> im.merkle_path]
      [] im.kind = "Common.Reconnect" ->
            [kind |-> "Reconnect",
             new_host |-> from_utf8_lossy(im.new_host),
             new_port |-> im.new_port]
      [] im.kind = "Mining.NewExtendedMiningJob" ->
            [kind |-> "NewExtendedMiningJob", job_id |-> im.job_id]
      [] im.kind = "Mining.SubmitSharesStandard" ->
            [kind |-> "SubmitSharesStandard",
             sequence_number |-> im.sequence_number,
             job_id |-> im.job_id,
             nonce |-> im.nonce,
             rolled |-> im.rolled]
      [] im.kind = "Mining.SubmitSharesExtended" ->
            [kind |-> "SubmitSharesExtended",
             sequence_number |-> im.sequence_number,
             job_id |-> im.job_id,
             nonce |-> im.nonce,
             rolled |-> im.rolled,
             extranonce_len |-> im.extranonce_len]

\* Vec<u8> -> [u8; 32] -> Target
TargetFromVec(v) == [ok |-> v.len = U256Len, val |-> v.val]

(***************************************************************************)
(* The channel engine behind the wrappers (channels_sv2), modelled from    *)
(* the design specification: target derivation, job store, share           *)
(* validation.                                                             *)
(***************************************************************************)
FULL_EXTRANONCE_LEN == 32
PastRetention == 1     \* past jobs kept validatable: the most recent PastRetention

\* a lower target for a higher hashrate; no target for a hashrate that is
\* not positive
InnerHashRateToTarget(h) ==
    IF h <= 0 THEN [ok |-> FALSE, val |-> 0]
    ELSE [ok |-> TRUE, val |-> MaxTargetVal \div h]

\* open: "None" or the engine's error
InnerNewForPool(k, maxT, h, prefix_len, min_rollable) ==
    LET t == InnerHashRateToTarget(h) IN
    IF ~t.ok THEN [err |-> "InvalidNominalHashrate", target |-> 0]
    ELSE IF t.val > maxT THEN [err |-> "RequestedMaxTargetOutOfRange", target |-> 0]
    ELSE IF k = "Extended" /\ prefix_len + min_rollable > FULL_EXTRANONCE_LEN
         THEN [err |-> "RequestedMinExtranonceSizeTooLarge", target |-> 0]
    ELSE [err |-> "None", target |-> t.val]

\* update: the new target, or the engine's error with nothing changed
InnerUpdateChannel(h, req, ceiling) ==
    LET t == InnerHashRateToTarget(h)
        limit == IF req.some THEN req.val ELSE ceiling
    IN  IF ~t.ok THEN [err |-> "InvalidNominalHashrate", target |-> 0]
        ELSE IF req.some /\ req.val > ceiling
             THEN [err |-> "RequestedMaxTargetOutOfRange", target |-> 0]
        ELSE IF t.val > limit
             THEN [err |-> "RequestedMaxTargetOutOfRange", target |-> 0]
        ELSE [err |-> "None", target |-> t.val]

\* ---- job store ----------------------------------------------------------
JobIdsOf(S) == {j.id : j \in S}
PastSet(p) == {p[i] : i \in 1 .. Len(p)}

\* maps keyed by job id: an insert replaces the entry with the same key
MapInsert(S, j) == {x \in S : x.id # j.id} \cup {j}
PastInsert(p, j) == Append(SelectSeq(p, LAMBDA x : x.id # j.id), j)

\* the store after the job became a future job
InnerInsertFuture(st, j) ==
    [st EXCEPT !.future = MapInsert(st.future, j),
               !.tmap = [st.tmap EXCEPT ![j.tpl] = j.id]]

\* the store after the job became the active job: the job that was active
\* moves to the past jobs
InnerAddActive(st, j) ==
    [st EXCEPT !.active = j,
               !.past = IF st.active = NoJob THEN st.past
                        ELSE PastInsert(st.past, st.active)]

\* promote(template_id): ok is FALSE when no future job matches
InnerPromote(st, tpl) ==
    LET id == st.tmap[tpl]
        js == {j \in st.future : j.id = id}
    IN  IF id = 0 \/ js = {} THEN [ok |-> FALSE, st |-> st]
        ELSE LET j == CHOOSE x \in js : TRUE
                 moved == InnerAddActive(st, j)
             IN [ok |-> TRUE,
                 st |-> [moved EXCEPT !.future = st.future \ {j},
                                      !.tmap = [st.tmap EXCEPT ![tpl] = 0]]]

Store == [future |-> future_jobs, active |-> active_job, past |-> past_jobs,
          tmap |-> future_template_to_job_id]

SetStore(st) ==
    /\ future_jobs' = st.future
    /\ active_job' = st.active
    /\ past_jobs' = st.past
    /\ future_template_to_job_id' = st.tmap

\* ---- share validation ---------------------------------------------------
\* the proof-of-work hash a share recomputes to: a function of the job and
\* of the share's own fields
ShareHash(sh, j) == (sh.nonce + j.id) % (MaxTargetVal + 2)

\* the work one accepted share stands for at a given target
DifficultyOf(t) == MaxTargetVal + 1 - t

\* the job a share's job_id resolves to: the active job, else a past job
ResolveJob(st, id) ==
    IF st.active # NoJob /\ st.active.id = id THEN st.active
    ELSE IF \E i \in 1 .. Len(st.past) : st.past[i].id = id
         THEN st.past[CHOOSE i \in 1 .. Len(st.past) : st.past[i].id = id]
         ELSE NoJob

\* a store that retains no past job: every past job is stale
IsStale_retaining_none(st, id) ==
    /\ ~(st.active # NoJob /\ st.active.id = id)
    /\ \E i \in 1 .. Len(st.past) : st.past[i].id = id

\* a past job older than the retention window
IsStale(st, id) ==
    /\ ~(st.active # NoJob /\ st.active.id = id)
    /\ \E i \in 1 .. Len(st.past) :
          st.past[i].id = id /\ Len(st.past) - i + 1 > PastRetention

\* accounting that does not count the share towards the next acknowledgement
Accepted_uncounted(acct, seq, t) ==
    [acct EXCEPT !.last_share_sequence_number = seq,
                 !.shares_accepted = @ + 1,
                 !.share_work_sum = @ + DifficultyOf(t),
                 !.seen = @ \cup {seq}]

Accepted(acct, seq, t) ==
    [acct EXCEPT !.last_share_sequence_number = seq,
                 !.shares_accepted = @ + 1,
                 !.share_work_sum = @ + DifficultyOf(t),
                 !.seen = @ \cup {seq},
                 !.since_ack = @ + 1]

\* validate_share that does not ask for a chain tip
InnerValidateShare_without_tip(sh, st, t, tip, acct, rolling_allowed, batch) ==
    LET j == ResolveJob(st, sh.job_id) IN
    IF j = NoJob THEN [res |-> "InvalidJobId", acct |-> acct, v |-> <<>>]
    ELSE IF IsStale(st, sh.job_id) THEN [res |-> "Stale", acct |-> acct, v |-> <<>>]
    ELSE IF ShareHash(sh, j) > t
         THEN [res |-> "DoesNotMeetTarget", acct |-> acct, v |-> <<>>]
    ELSE IF sh.sequence_number \in acct.seen
         THEN [res |-> "DuplicateShare", acct |-> acct, v |-> <<>>]
    ELSE IF sh.rolled /\ ~rolling_allowed
         THEN [res |-> "VersionRollingNotAllowed", acct |-> acct, v |-> <<>>]
    ELSE IF ShareHash(sh, j) <= tip.target
         THEN [res |-> "BlockFound", acct |-> acct, v |-> <<j.tpl>>]
    ELSE LET a == Accepted(acct, sh.sequence_number, t) IN
         IF a.since_ack >= batch
         THEN [res |-> "ValidWithAcknowledgement",
               acct |-> [a EXCEPT !.since_ack = 0],
               v |-> <<a.last_share_sequence_number, a.shares_accepted,
                       a.share_work_sum>>]
         ELSE [res |-> "Valid", acct |-> a, v |-> <<>>]

\* validate_share, step by step; the result and the accounting afterwards
InnerValidateShare(sh, st, t, tip, acct, rolling_allowed, batch) ==
    LET j == ResolveJob(st, sh.job_id) IN
    IF j = NoJob THEN [res |-> "InvalidJobId", acct |-> acct, v |-> <<>>]
    ELSE IF IsStale(st, sh.job_id) THEN [res |-> "Stale", acct |-> acct, v |-> <<>>]
    ELSE IF ShareHash(sh, j) > t
         THEN [res |-> "DoesNotMeetTarget", acct |-> acct, v |-> <<>>]
    ELSE IF sh.sequence_number \in acct.seen
         THEN [res |-> "DuplicateShare", acct |-> acct, v |-> <<>>]
    ELSE IF sh.rolled /\ ~rolling_allowed
         THEN [res |-> "VersionRollingNotAllowed", acct |-> acct, v |-> <<>>]
    ELSE IF ~tip.set THEN [res |-> "NoChainTip", acct |-> acct, v |-> <<>>]
    ELSE IF ShareHash(sh, j) <= tip.target
         THEN [res |-> "BlockFound", acct |-> acct, v |-> <<j.tpl>>]
    ELSE LET a == Accepted(acct, sh.sequence_number, t) IN
         IF a.since_ack >= batch
         THEN [res |-> "ValidWithAcknowledgement",
               acct |-> [a EXCEPT !.since_ack = 0],
               v |-> <<a.last_share_sequence_number, a.shares_accepted,
                       a.share_work_sum>>]
         ELSE [res |-> "Valid", acct |-> a, v |-> <<>>]

ShareResults == {"Valid", "ValidWithAcknowledgement", "BlockFound"}
AcceptedResults == {"Valid", "ValidWithAcknowledgement"}

(***************************************************************************)
(* The channel server wrappers (src/src/channels/server/).  Every call     *)
(* takes the channel's mutex for its whole body, so a call is one step.    *)
(***************************************************************************)
NoAccounting == [last_share_sequence_number |-> 0, shares_accepted |-> 0,
                 share_work_sum |-> 0, seen |-> {}, since_ack |-> 0]
EmptyStore == [future |-> {}, active |-> NoJob, past |-> <<>>,
               tmap |-> [t \in TemplateIds |-> 0]]

\* the constructor returned Err: no object exists
NoObject(op, e) ==
    /\ ret' = Ret(op, e, <<>>, NoShare)
    /\ UNCHANGED <<chanVars, codecVars>>

\* a failing call that also drops the channel's future jobs
Fail_flushing(op, e) ==
    /\ ret' = Ret(op, e, <<>>, NoShare)
    /\ future_jobs' = {}
    /\ UNCHANGED <<kind, opened, max_target, target, nominal_hashrate,
                   share_batch_size, version_rolling_allowed, active_job,
                   past_jobs, future_template_to_job_id, chain_tip,
                   job_id_factory, share_accounting, standard_channel_ids, codecVars>>

\* a call on the open channel returned Err before changing anything
Fail(op, e) ==
    /\ ret' = Ret(op, e, <<>>, NoShare)
    /\ UNCHANGED <<chanVars, codecVars>>

Construct(k, maxT, t, h, batch, rolling) ==
    /\ kind' = k
    /\ opened' = TRUE
    /\ max_target' = maxT
    /\ target' = t
    /\ nominal_hashrate' = h
    /\ share_batch_size' = batch
    /\ version_rolling_allowed' = rolling
    /\ UNCHANGED <<future_jobs, active_job, past_jobs, future_template_to_job_id,
                   chain_tip, job_id_factory, share_accounting, standard_channel_ids, codecVars>>

\* Sv2StandardChannelServer::new
StandardNew(max_target_vec, hashrate, batch) ==
    /\ ~opened
    /\ LET mt == TargetFromVec(max_target_vec) IN
       IF ~mt.ok THEN NoObject("new", "BadMaxTarget")
       ELSE LET r == InnerNewForPool("Standard", mt.val, hashrate, 0, 0) IN
            IF r.err # "None" THEN NoObject("new", "FailedToCreateStandardChannel")
            ELSE /\ Construct("Standard", mt.val, r.target, hashrate, batch, TRUE)
                 /\ ret' = Ret("new", "Ok", <<>>, NoShare)

\* the engine's open errors the Extended constructor reports one by one
ExtendedNewError(e) ==
    IF e \in {"InvalidNominalHashrate", "RequestedMaxTargetOutOfRange",
              "RequestedMinExtranonceSizeTooLarge"}
    THEN e ELSE "FailedToCreateExtendedChannel"

\* Sv2ExtendedChannelServer::new
ExtendedNew(max_target_vec, hashrate, rolling, prefix_len, min_rollable, batch) ==
    /\ ~opened
    /\ LET mt == TargetFromVec(max_target_vec) IN
       IF ~mt.ok THEN NoObject("new", "BadMaxTarget")
       ELSE LET r == InnerNewForPool("Extended", mt.val, hashrate, prefix_len,
                                     min_rollable) IN
            IF r.err # "None" THEN NoObject("new", ExtendedNewError(r.err))
            ELSE /\ Construct("Extended", mt.val, r.target, hashrate, batch, rolling)
                 /\ ret' = Ret("new", "Ok", <<>>, NoShare)

\* Sv2GroupChannelServer::new
GroupNew ==
    /\ ~opened
    /\ Construct("Group", 0, 0, 0, 0, FALSE)
    /\ ret' = Ret("new", "Ok", <<>>, NoShare)

\* the other fields of the channel, left alone by the member calls
notMemberVars == <<kind, opened, max_target, target, nominal_hashrate, share_batch_size,
                   version_rolling_allowed, future_jobs, active_job, past_jobs,
                   future_template_to_job_id, chain_tip, job_id_factory, share_accounting>>

\* add_standard_channel_id (Group only): always Ok
add_standard_channel_id(standard_channel_id) ==
    /\ opened /\ kind = "Group"
    /\ standard_channel_ids' = standard_channel_ids \cup {standard_channel_id}
    /\ ret' = Ret("add_standard_channel_id", "Ok", <<>>, NoShare)
    /\ UNCHANGED <<notMemberVars, codecVars>>

\* remove_standard_channel_id that refuses an id that is not a member
remove_standard_channel_id_strict(standard_channel_id) ==
    /\ opened /\ kind = "Group"
    /\ IF standard_channel_id \notin standard_channel_ids
       THEN Fail("remove_standard_channel_id", "NotAMember")
       ELSE /\ standard_channel_ids' = standard_channel_ids \ {standard_channel_id}
            /\ ret' = Ret("remove_standard_channel_id", "Ok", <<>>, NoShare)
            /\ UNCHANGED <<notMemberVars, codecVars>>

\* remove_standard_channel_id (Group only): always Ok
remove_standard_channel_id(standard_channel_id) ==
    /\ opened /\ kind = "Group"
    /\ standard_channel_ids' = standard_channel_ids \ {standard_channel_id}
    /\ ret' = Ret("remove_standard_channel_id", "Ok", <<>>, NoShare)
    /\ UNCHANGED <<notMemberVars, codecVars>>

\* get_standard_channel_ids (Group only): the members collected into a Vec,
\* in the order the engine's set yields them
get_standard_channel_ids ==
    /\ opened /\ kind = "Group"
    /\ \E ids \in [1 .. Cardinality(standard_channel_ids) -> standard_channel_ids] :
          /\ \A i, j \in DOMAIN ids : ids[i] = ids[j] => i = j
          /\ ret' = Ret("get_standard_channel_ids", "Ok", ids, NoShare)
    /\ UNCHANGED <<chanVars, codecVars>>

\* update_channel that applies the recomputed target whatever the engine
\* answered (the `?` on the engine's result dropped)
update_channel_unchecked(hashrate, requested_max_target) ==
    /\ opened /\ kind \in {"Standard", "Extended"}
    /\ hashrate > 0
    /\ target' = InnerHashRateToTarget(hashrate).val
    /\ nominal_hashrate' = hashrate
    /\ ret' = Ret("update_channel", "Ok", <<>>, NoShare)
    /\ UNCHANGED <<kind, opened, max_target, share_batch_size,
                   version_rolling_allowed, future_jobs, active_job,
                   past_jobs, future_template_to_job_id, chain_tip,
                   job_id_factory, share_accounting, standard_channel_ids, codecVars>>

\* update_channel that stores the new hashrate before the engine has
\* decided on the target
update_channel_storing_first(hashrate, requested_max_target) ==
    /\ opened /\ kind \in {"Standard", "Extended"}
    /\ IF requested_max_target.some /\ ~TargetFromVec(requested_max_target).ok
       THEN Fail("update_channel", "BadMaxTarget")
       ELSE LET r == InnerUpdateChannel(hashrate, requested_max_target, max_target) IN
            IF r.err # "None"
            THEN /\ nominal_hashrate' = hashrate
                 /\ ret' = Ret("update_channel", "FailedToUpdateChannel", <<>>, NoShare)
                 /\ UNCHANGED <<kind, opened, max_target, target, share_batch_size,
                                version_rolling_allowed, future_jobs, active_job,
                                past_jobs, future_template_to_job_id, chain_tip,
                                job_id_factory, share_accounting, standard_channel_ids, codecVars>>
            ELSE /\ target' = r.target
                 /\ nominal_hashrate' = hashrate
                 /\ ret' = Ret("update_channel", "Ok", <<>>, NoShare)
                 /\ UNCHANGED <<kind, opened, max_target, share_batch_size,
                                version_rolling_allowed, future_jobs, active_job,
                                past_jobs, future_template_to_job_id, chain_tip,
                                job_id_factory, share_accounting, standard_channel_ids, codecVars>>

\* update_channel (Standard and Extended)
update_channel(hashrate, requested_max_target) ==
    /\ opened /\ kind \in {"Standard", "Extended"}
    /\ IF requested_max_target.some /\ ~TargetFromVec(requested_max_target).ok
       THEN Fail("update_channel", "BadMaxTarget")
       ELSE LET r == InnerUpdateChannel(hashrate, requested_max_target, max_target) IN
            IF r.err # "None"
            THEN Fail("update_channel", "FailedToUpdateChannel")
            ELSE /\ target' = r.target
                 /\ nominal_hashrate' = hashrate
                 /\ ret' = Ret("update_channel", "Ok", <<>>, NoShare)
                 /\ UNCHANGED <<kind, opened, max_target, share_batch_size,
                                version_rolling_allowed, future_jobs, active_job,
                                past_jobs, future_template_to_job_id, chain_tip,
                                job_id_factory, share_accounting, standard_channel_ids, codecVars>>

\* the job the channel's own factory builds from a template or a custom job
NewJob(tpl, origin) == [id |-> job_id_factory, tpl |-> tpl, origin |-> origin]

\* on_new_template (Standard, Extended and Group)
on_new_template(template) ==
    /\ opened
    /\ job_id_factory <= MaxJobId
    /\ LET c == sv2_message_to_inner(template) IN
       IF ~c.ok THEN Fail("on_new_template", "FailedToConvertMessage")
       ELSE IF c.msg.kind # "TemplateDistribution.NewTemplate"
       THEN Fail("on_new_template", "MessageIsNotNewTemplate")
       ELSE LET j == NewJob(c.msg.template_id, "NewTemplate") IN
            /\ SetStore(IF c.msg.future_template
                        THEN InnerInsertFuture(Store, j)
                        ELSE InnerAddActive(Store, j))
            /\ job_id_factory' = job_id_factory + 1
            /\ ret' = Ret("on_new_template", "Ok", <<>>, NoShare)
            /\ UNCHANGED <<kind, opened, max_target, target, nominal_hashrate,
                           share_batch_size, version_rolling_allowed, chain_tip,
                           share_accounting, standard_channel_ids, codecVars>>

\* on_group_channel_job (Standard only): the extended job keeps its job id
on_group_channel_job(extended_job) ==
    /\ opened /\ kind = "Standard"
    /\ LET j == [id |-> extended_job.id, tpl |-> extended_job.tpl,
                 origin |-> "NewTemplate"] IN
       /\ SetStore(IF extended_job.future
                   THEN InnerInsertFuture(Store, j)
                   ELSE InnerAddActive(Store, j))
       /\ ret' = Ret("on_group_channel_job", "Ok", <<>>, NoShare)
       /\ UNCHANGED <<kind, opened, max_target, target, nominal_hashrate,
                      share_batch_size, version_rolling_allowed, chain_tip,
                      job_id_factory, share_accounting, standard_channel_ids, codecVars>>

\* on_set_new_prev_hash that drops the active job before it asks the engine
on_set_new_prev_hash_clearing(set_new_prev_hash) ==
    /\ opened
    /\ active_job' = NoJob
    /\ ret' = Ret("on_set_new_prev_hash", "FailedToProcessNewPrevHash", <<>>, NoShare)
    /\ UNCHANGED <<kind, opened, max_target, target, nominal_hashrate,
                   share_batch_size, version_rolling_allowed, future_jobs,
                   past_jobs, future_template_to_job_id, chain_tip,
                   job_id_factory, share_accounting, standard_channel_ids, codecVars>>

\* on_set_new_prev_hash (Standard, Extended and Group)
on_set_new_prev_hash(set_new_prev_hash) ==
    /\ opened
    /\ LET c == sv2_message_to_inner(set_new_prev_hash)
           tid == set_new_prev_hash.template_id
       IN
       IF ~c.ok THEN Fail("on_set_new_prev_hash", "FailedToConvertMessage")
       ELSE IF c.msg.kind # "TemplateDistribution.SetNewPrevHash"
       THEN Fail("on_set_new_prev_hash", "MessageIsNotSetNewPrevHash")
       ELSE LET r == InnerPromote(Store, c.msg.template_id) IN
            IF ~r.ok THEN Fail("on_set_new_prev_hash", "FailedToProcessNewPrevHash")
            ELSE /\ SetStore(r.st)
                 /\ chain_tip' = [set |-> TRUE, prev_hash |-> c.msg.prev_hash,
                                  target |-> c.msg.target]
                 /\ ret' = Ret("on_set_new_prev_hash", "Ok", <<>>, NoShare)
                 /\ UNCHANGED <<kind, opened, max_target, target, nominal_hashrate,
                                share_batch_size, version_rolling_allowed,
                                job_id_factory, share_accounting, standard_channel_ids, codecVars>>

\* on_set_custom_mining_job that tags the job as made from a template
on_set_custom_mining_job_as_template(set_custom_mining_job) ==
    /\ opened /\ kind = "Extended"
    /\ job_id_factory <= MaxJobId
    /\ LET c == sv2_message_to_inner(set_custom_mining_job) IN
       IF ~c.ok THEN Fail("on_set_custom_mining_job", "FailedToConvertMessage")
       ELSE IF c.msg.kind # "Mining.SetCustomMiningJob"
       THEN Fail("on_set_custom_mining_job", "MessageIsNotSetCustomMiningJob")
       ELSE /\ SetStore(InnerAddActive(Store, NewJob(0, "NewTemplate")))
            /\ job_id_factory' = job_id_factory + 1
            /\ ret' = Ret("on_set_custom_mining_job", "Ok", <<>>, NoShare)
            /\ UNCHANGED <<kind, opened, max_target, target, nominal_hashrate,
                           share_batch_size, version_rolling_allowed, chain_tip,
                           share_accounting, standard_channel_ids, codecVars>>

\* on_set_custom_mining_job (Extended only)
on_set_custom_mining_job(set_custom_mining_job) ==
    /\ opened /\ kind = "Extended"
    /\ job_id_factory <= MaxJobId
    /\ LET c == sv2_message_to_inner(set_custom_mining_job) IN
       IF ~c.ok THEN Fail("on_set_custom_mining_job", "FailedToConvertMessage")
       ELSE IF c.msg.kind # "Mining.SetCustomMiningJob"
       THEN Fail("on_set_custom_mining_job", "MessageIsNotSetCustomMiningJob")
       ELSE /\ SetStore(InnerAddActive(Store, NewJob(0, "SetCustomMiningJob")))
            /\ job_id_factory' = job_id_factory + 1
            /\ ret' = Ret("on_set_custom_mining_job", "Ok", <<>>, NoShare)
            /\ UNCHANGED <<kind, opened, max_target, target, nominal_hashrate,
                           share_batch_size, version_rolling_allowed, chain_tip,
                           share_accounting, standard_channel_ids, codecVars>>

\* Sv2ExtendedJob::get_job_origin: the arm of the job's origin; the message
\* the origin holds is translated back and comes out as the same kind
get_job_origin(job) ==
    CASE job.origin = "NewTemplate" -> "NewTemplate"
      [] job.origin = "SetCustomMiningJob" -> "SetCustomMiningJob"

\* get_active_job that does not look whether there is an active job
get_active_job_unchecked ==
    /\ opened
    /\ ret' = Ret("get_active_job", "Ok", <<active_job>>, NoShare)
    /\ UNCHANGED <<chanVars, codecVars>>

\* get_active_job (Standard, Extended and Group): a copy of the active job;
\* the Group channel returns it as the NewExtendedMiningJob message it
\* translates back
get_active_job ==
    /\ opened
    /\ IF active_job = NoJob THEN Fail("get_active_job", "FailedToGetActiveJob")
       ELSE IF /\ kind = "Group"
               /\ inner_to_sv2_message([kind |-> "Mining.NewExtendedMiningJob",
                                        job_id |-> active_job.id]).kind
                     # "NewExtendedMiningJob"
       THEN Fail("get_active_job", "MessageIsNotNewExtendedMiningJob")
       ELSE /\ ret' = Ret("get_active_job", "Ok", <<active_job>>, NoShare)
            /\ UNCHANGED <<chanVars, codecVars>>

\* an error table that folds every rejection into Invalid
ShareValidationErrorOf_generic(e) == "Invalid"

\* an error table with the arms of Stale and InvalidJobId exchanged
ShareValidationErrorOf_swapped(e) ==
    CASE e = "Invalid" -> "Invalid"
      [] e = "Stale" -> "InvalidJobId"
      [] e = "InvalidJobId" -> "Stale"
      [] e = "DoesNotMeetTarget" -> "DoesNotMeetTarget"
      [] e = "VersionRollingNotAllowed" -> "VersionRollingNotAllowed"
      [] e = "DuplicateShare" -> "DuplicateShare"
      [] e = "InvalidCoinbase" -> "InvalidCoinbase"
      [] e = "NoChainTip" -> "NoChainTip"

\* the wrapper's error for each error of the engine's share validation
ShareValidationErrorOf(e) ==
    CASE e = "Invalid" -> "Invalid"
      [] e = "Stale" -> "Stale"
      [] e = "InvalidJobId" -> "InvalidJobId"
      [] e = "DoesNotMeetTarget" -> "DoesNotMeetTarget"
      [] e = "VersionRollingNotAllowed" -> "VersionRollingNotAllowed"
      [] e = "DuplicateShare" -> "DuplicateShare"
      [] e = "InvalidCoinbase" -> "InvalidCoinbase"
      [] e = "NoChainTip" -> "NoChainTip"

\* validate_share that answers Valid for every accepted share, the one that
\* completes a batch included
validate_share_result_valid_only(share) ==
    LET c == sv2_message_to_inner(share) IN
    IF ~c.ok
    THEN [res |-> "FailedToConvertMessage", v |-> <<>>, acct |-> share_accounting]
    ELSE IF c.msg.kind # (IF kind = "Standard" THEN "Mining.SubmitSharesStandard"
                          ELSE "Mining.SubmitSharesExtended")
    THEN [res |-> IF kind = "Standard" THEN "MessageIsNotSubmitSharesStandard"
                  ELSE "MessageIsNotSubmitSharesExtended",
          v |-> <<>>, acct |-> share_accounting]
    ELSE LET r == InnerValidateShare(c.msg, Store, target, chain_tip,
                                     share_accounting, version_rolling_allowed,
                                     share_batch_size) IN
         [res |-> IF r.res \in AcceptedResults THEN "Valid"
                  ELSE IF r.res \in ShareResults THEN r.res
                  ELSE ShareValidationErrorOf(r.res),
          v |-> r.v, acct |-> r.acct]

\* What validate_share answers for a share, and the share accounting it
\* leaves in the channel: the message is translated, its kind is matched
\* against the channel's, the engine validates it, and the engine's error is
\* mapped to the wrapper's.
validate_share_result(share) ==
    LET c == sv2_message_to_inner(share) IN
    IF ~c.ok
    THEN [res |-> "FailedToConvertMessage", v |-> <<>>, acct |-> share_accounting]
    ELSE IF c.msg.kind # (IF kind = "Standard" THEN "Mining.SubmitSharesStandard"
                          ELSE "Mining.SubmitSharesExtended")
    THEN [res |-> IF kind = "Standard" THEN "MessageIsNotSubmitSharesStandard"
                  ELSE "MessageIsNotSubmitSharesExtended",
          v |-> <<>>, acct |-> share_accounting]
    ELSE LET r == InnerValidateShare(c.msg, Store, target, chain_tip,
                                     share_accounting, version_rolling_allowed,
                                     share_batch_size) IN
         [res |-> IF r.res \in ShareResults THEN r.res
                  ELSE ShareValidationErrorOf(r.res),
          v |-> r.v, acct |-> r.acct]

\* validate_share that counts every call as an accepted share, whatever the
\* engine answered
validate_share_counting_every_call(share) ==
    /\ opened /\ kind \in {"Standard", "Extended"}
    /\ share.kind = IF kind = "Standard" THEN "SubmitSharesStandard"
                    ELSE "SubmitSharesExtended"
    /\ LET o == validate_share_result(share) IN
       /\ share_accounting' =
             IF o.res \in AcceptedResults THEN o.acct
             ELSE [o.acct EXCEPT !.shares_accepted = @ + 1]
       /\ ret' = Ret("validate_share", o.res, o.v,
                     IF o.res \in AcceptedResults THEN share ELSE NoShare)
       /\ UNCHANGED <<kind, opened, max_target, target, nominal_hashrate,
                      share_batch_size, version_rolling_allowed, future_jobs,
                      active_job, past_jobs, future_template_to_job_id,
                      chain_tip, job_id_factory, standard_channel_ids, codecVars>>

\* validate_share that reports the engine's result but validates on a copy
\* of the channel: the accounting is never stored
validate_share_on_copy(share) ==
    /\ opened /\ kind \in {"Standard", "Extended"}
    /\ share.kind = IF kind = "Standard" THEN "SubmitSharesStandard"
                    ELSE "SubmitSharesExtended"
    /\ LET o == validate_share_result(share) IN
       /\ ret' = Ret("validate_share", o.res, o.v,
                     IF o.res \in AcceptedResults THEN share ELSE NoShare)
       /\ UNCHANGED <<chanVars, codecVars>>

\* validate_share (Standard takes SubmitSharesStandard, Extended takes
\* SubmitSharesExtended)
validate_share(share) ==
    /\ opened /\ kind \in {"Standard", "Extended"}
    /\ share.kind = IF kind = "Standard" THEN "SubmitSharesStandard"
                    ELSE "SubmitSharesExtended"
    /\ LET o == validate_share_result(share) IN
       /\ share_accounting' = o.acct
       /\ ret' = Ret("validate_share", o.res, o.v,
                     IF o.res \in AcceptedResults THEN share ELSE NoShare)
       /\ UNCHANGED <<kind, opened, max_target, target, nominal_hashrate,
                      share_batch_size, version_rolling_allowed, future_jobs,
                      active_job, past_jobs, future_template_to_job_id,
                      chain_tip, job_id_factory, standard_channel_ids, codecVars>>

(***************************************************************************)
(* The encrypted connection.  The Noise handshake and the frame cipher     *)
(* (codec_sv2, noise_sv2) are modelled from the design specification: a    *)
(* ciphertext is the plaintext tagged with the key and the nonce that      *)
(* sealed it, and opens only under the same key and nonce.                 *)
(***************************************************************************)
Sides == {"initiator", "responder"}
Peer(s) == IF s = "initiator" THEN "responder" ELSE "initiator"

KEY_LEN == 32
ELLSWIFT_ENCODING_SIZE == 64
INITIATOR_EXPECTED_HANDSHAKE_MESSAGE_SIZE == 234
ENCRYPTED_SV2_FRAME_HEADER_SIZE == 22
AEAD_MAC_LEN == 16

\* no Sv2CodecState object yet
NoCodecState == [role |-> "None", phase |-> "None", authority |-> 0,
                 e |-> 0, key |-> 0, send_n |-> 0, recv_n |-> 0]

\* InnerCodecState::initialized(HandshakeRole::...)
InnerInitialized(role, authority) ==
    [role |-> role, phase |-> "HandShake", authority |-> authority,
     e |-> 0, key |-> 0, send_n |-> 0, recv_n |-> 0]

\* a handshake payload: its length, the ephemeral key it carries, the
\* authority key that signed it (0 in the initiator's payload)
NoFrame == [len |-> 0, e |-> 0, sig |-> 0]

InnerTransport(st, key) ==
    [st EXCEPT !.phase = "Transport", !.key = key, !.send_n = 0, !.recv_n = 0]

\* a first step that does not look at the role
InnerStep0_any_role(st) ==
    IF st.phase = "HandShake"
    THEN [ok |-> TRUE, st |-> [st EXCEPT !.e = 1],
          frame |-> [len |-> ELLSWIFT_ENCODING_SIZE, e |-> 1, sig |-> 0]]
    ELSE [ok |-> FALSE, st |-> st, frame |-> NoFrame]

\* Initiator only: the first handshake payload
InnerStep0(st) ==
    IF st.role = "Initiator" /\ st.phase = "HandShake"
    THEN [ok |-> TRUE, st |-> [st EXCEPT !.e = 1],
          frame |-> [len |-> ELLSWIFT_ENCODING_SIZE, e |-> 1, sig |-> 0]]
    ELSE [ok |-> FALSE, st |-> st, frame |-> NoFrame]

\* Responder only: consumes the initiator's payload, signs its own with the
\* authority key, and is in Transport afterwards
InnerStep1(st, frame) ==
    IF st.role = "Responder" /\ st.phase = "HandShake" /\ frame.e # 0
    THEN [ok |-> TRUE, st |-> InnerTransport(st, frame.e + 1),
          frame |-> [len |-> INITIATOR_EXPECTED_HANDSHAKE_MESSAGE_SIZE,
                     e |-> frame.e, sig |-> st.authority]]
    ELSE [ok |-> FALSE, st |-> st, frame |-> NoFrame]

\* Initiator only: checks the responder's signature against the authority
\* key it was constructed with, and is in Transport afterwards
InnerStep2(st, frame) ==
    IF /\ st.role = "Initiator" /\ st.phase = "HandShake"
       /\ st.e # 0 /\ frame.e = st.e
       /\ frame.sig = st.authority
    THEN [ok |-> TRUE, st |-> InnerTransport(st, frame.e + 1)]
    ELSE [ok |-> FALSE, st |-> st]

\* ---- frames ---------------------------------------------------------------
\* A frame travels as two sealed parts: the header (message type and the
\* length of the sealed payload) and the payload.  `sent` remembers the
\* message the payload was made from; no operation reads it.
NoMessage == [kind |-> "None"]
NoCell == [part |-> "none", len |-> 0, key |-> 0, n |-> 0, msg_type |-> "None",
           encrypted_len |-> 0, payload |-> NoMessage, sent |-> NoMessage]

PayloadLen(im) ==
    IF im.kind = "Mining.SubmitSharesStandard" THEN 24 ELSE 25 + im.extranonce_len

\* an encoder that seals in any phase, with whatever key the state holds
InnerEncode_any_phase(im, sent, st) ==
    LET body_len == PayloadLen(im) + AEAD_MAC_LEN IN
    [ok |-> TRUE,
     cells |-> << [NoCell EXCEPT !.part = "header",
                                      !.len = ENCRYPTED_SV2_FRAME_HEADER_SIZE,
                                      !.key = st.key, !.n = st.send_n,
                                      !.msg_type = im.kind,
                                      !.encrypted_len = body_len],
                       [NoCell EXCEPT !.part = "payload",
                                      !.len = body_len,
                                      !.key = st.key, !.n = st.send_n + 1,
                                      !.payload = im, !.sent = sent] >>,
     st |-> [st EXCEPT !.send_n = @ + 2]]

\* NoiseEncoder::encode: the frame sealed under the state's sending key and
\* nonce, and the state with the nonce advanced past both parts
InnerEncode(im, sent, st) ==
    IF st.phase # "Transport" THEN [ok |-> FALSE, cells |-> <<>>, st |-> st]
    ELSE LET body_len == PayloadLen(im) + AEAD_MAC_LEN IN
         [ok |-> TRUE,
          cells |-> << [NoCell EXCEPT !.part = "header",
                                      !.len = ENCRYPTED_SV2_FRAME_HEADER_SIZE,
                                      !.key = st.key, !.n = st.send_n,
                                      !.msg_type = im.kind,
                                      !.encrypted_len = body_len],
                       [NoCell EXCEPT !.part = "payload",
                                      !.len = body_len,
                                      !.key = st.key, !.n = st.send_n + 1,
                                      !.payload = im, !.sent = sent] >>,
          st |-> [st EXCEPT !.send_n = @ + 2]]

\* a sealed part opens only under the receiving key and the next nonce
Opens(cell, st) == cell.key = st.key /\ cell.n = st.recv_n

\* ---- the inner decoder ----------------------------------------------------
\* NoiseDecoder::new: nothing buffered, nothing asked for
NewDecoder == [noise_buffer |-> <<>>, sv2_buffer |-> NoCell, missing_noise_b |-> 0]

BytesIn(buf) == IF buf = <<>> THEN 0 ELSE buf[1].len

\* decoder.writable().len()
WritableLen(d) == d.missing_noise_b

\* decoder.next_frame(&mut state): the result, the decoder and the state
\* afterwards
InnerNextFrame(d, st) ==
    IF st.phase # "Transport"
    THEN [res |-> "Err", n |-> 0, d |-> d, st |-> st, frame |-> NoCell]
    ELSE
    LET have == BytesIn(d.noise_buffer)
        hint == IF d.sv2_buffer = NoCell
                THEN (IF have < ENCRYPTED_SV2_FRAME_HEADER_SIZE
                      THEN ENCRYPTED_SV2_FRAME_HEADER_SIZE - have ELSE 0)
                ELSE d.sv2_buffer.encrypted_len - have
        cell == d.noise_buffer[1]
        emptied == [d EXCEPT !.noise_buffer = <<>>,
                             !.missing_noise_b = ENCRYPTED_SV2_FRAME_HEADER_SIZE]
    IN  IF hint > 0
        THEN [res |-> "MissingBytes", n |-> hint,
              d |-> [d EXCEPT !.missing_noise_b = hint], st |-> st, frame |-> NoCell]
        ELSE IF ~Opens(cell, st) \/ hint < 0
        THEN [res |-> "Err", n |-> 0, d |-> emptied, st |-> st, frame |-> NoCell]
        ELSE IF d.sv2_buffer = NoCell
        THEN \* the header is opened: the payload is asked for
             IF cell.part # "header"
             THEN [res |-> "Err", n |-> 0, d |-> emptied,
                   st |-> [st EXCEPT !.recv_n = @ + 1], frame |-> NoCell]
             ELSE [res |-> "MissingBytes", n |-> cell.encrypted_len,
                   d |-> [d EXCEPT !.noise_buffer = <<>>, !.sv2_buffer = cell,
                                   !.missing_noise_b = cell.encrypted_len],
                   st |-> [st EXCEPT !.recv_n = @ + 1], frame |-> NoCell]
        ELSE \* the payload is opened: the frame is complete
             [res |-> "Ok", n |-> 0,
              d |-> [emptied EXCEPT !.sv2_buffer = NoCell],
              st |-> [st EXCEPT !.recv_n = @ + 1],
              frame |-> [cell EXCEPT !.msg_type = d.sv2_buffer.msg_type]]

\* (message type, payload) -> AnyMessage
InnerParse(frame) ==
    IF frame.part = "payload" /\ frame.payload.kind = frame.msg_type
    THEN [ok |-> TRUE, msg |-> frame.payload]
    ELSE [ok |-> FALSE, msg |-> NoMessage]

(***************************************************************************)
(* The codec wrappers (src/src/codec/).                                    *)
(***************************************************************************)
MaxFrames == 2         \* frames in flight on the connection: at most MaxFrames

CodecRet(op, s, res, v) == Ret(op, res, <<s>> \o v, NoShare)

\* a codec call returned Err before changing anything
CodecFail(op, s, e) ==
    /\ ret' = CodecRet(op, s, e, <<>>)
    /\ UNCHANGED <<chanVars, codecVars>>

\* Sv2CodecState::new_initiator: the object of the initiator's side
new_initiator(authority_pub_key) ==
    /\ codec_state["initiator"] = NoCodecState
    /\ IF authority_pub_key.len # KEY_LEN
       THEN CodecFail("new_initiator", "initiator", "BadKey")
       ELSE /\ codec_state' = [codec_state EXCEPT !["initiator"] =
                                  InnerInitialized("Initiator", authority_pub_key.val)]
            /\ ret' = CodecRet("new_initiator", "initiator", "Ok", <<>>)
            /\ UNCHANGED <<chanVars, decoder, buffer_size, wire, initiator_frame,
                           responder_frame>>

\* Sv2CodecState::new_responder: the object of the responder's side
new_responder(authority_pub_key, authority_priv_key) ==
    /\ codec_state["responder"] = NoCodecState
    /\ IF authority_pub_key.len # KEY_LEN \/ authority_priv_key.len # KEY_LEN
       THEN CodecFail("new_responder", "responder", "BadKey")
       ELSE /\ codec_state' = [codec_state EXCEPT !["responder"] =
                                  InnerInitialized("Responder", authority_priv_key.val)]
            /\ ret' = CodecRet("new_responder", "responder", "Ok", <<>>)
            /\ UNCHANGED <<chanVars, decoder, buffer_size, wire, initiator_frame,
                           responder_frame>>

\* Sv2CodecState::step_0
step_0(s) ==
    /\ codec_state[s] # NoCodecState
    /\ LET r == InnerStep0(codec_state[s]) IN
       IF ~r.ok THEN CodecFail("step_0", s, "FailedHandshakeStep0")
       ELSE /\ codec_state' = [codec_state EXCEPT ![s] = r.st]
            /\ initiator_frame' = r.frame
            /\ ret' = CodecRet("step_0", s, "Ok", <<>>)
            /\ UNCHANGED <<chanVars, decoder, buffer_size, wire, responder_frame>>

\* step_1 that stores a freshly initialized state when the engine refuses
step_1_resetting(s, frame) ==
    /\ codec_state[s] # NoCodecState
    /\ IF frame.len # ELLSWIFT_ENCODING_SIZE
       THEN CodecFail("step_1", s, "BadInitiatorFrame")
       ELSE LET r == InnerStep1(codec_state[s], frame) IN
            IF ~r.ok
            THEN /\ codec_state' = [codec_state EXCEPT ![s] =
                                       InnerInitialized(@.role, @.authority)]
                 /\ ret' = CodecRet("step_1", s, "FailedHandshakeStep1", <<>>)
                 /\ UNCHANGED <<chanVars, decoder, buffer_size, wire, initiator_frame,
                                responder_frame>>
            ELSE /\ codec_state' = [codec_state EXCEPT ![s] = r.st]
                 /\ responder_frame' = r.frame
                 /\ ret' = CodecRet("step_1", s, "Ok", <<>>)
                 /\ UNCHANGED <<chanVars, decoder, buffer_size, wire, initiator_frame>>

\* Sv2CodecState::step_1
step_1(s, frame) ==
    /\ codec_state[s] # NoCodecState
    /\ IF frame.len # ELLSWIFT_ENCODING_SIZE
       THEN CodecFail("step_1", s, "BadInitiatorFrame")
       ELSE LET r == InnerStep1(codec_state[s], frame) IN
            IF ~r.ok THEN CodecFail("step_1", s, "FailedHandshakeStep1")
            ELSE /\ codec_state' = [codec_state EXCEPT ![s] = r.st]
                 /\ responder_frame' = r.frame
                 /\ ret' = CodecRet("step_1", s, "Ok", <<>>)
                 /\ UNCHANGED <<chanVars, decoder, buffer_size, wire, initiator_frame>>

\* step_2 that drops the state the engine returned
step_2_forgetting(s, frame) ==
    /\ codec_state[s] # NoCodecState
    /\ IF frame.len # INITIATOR_EXPECTED_HANDSHAKE_MESSAGE_SIZE
       THEN CodecFail("step_2", s, "BadResponderFrame")
       ELSE IF ~InnerStep2(codec_state[s], frame).ok
       THEN CodecFail("step_2", s, "FailedHandshakeStep2")
       ELSE /\ ret' = CodecRet("step_2", s, "Ok", <<>>)
            /\ UNCHANGED <<chanVars, codecVars>>

\* Sv2CodecState::step_2
step_2(s, frame) ==
    /\ codec_state[s] # NoCodecState
    /\ IF frame.len # INITIATOR_EXPECTED_HANDSHAKE_MESSAGE_SIZE
       THEN CodecFail("step_2", s, "BadResponderFrame")
       ELSE LET r == InnerStep2(codec_state[s], frame) IN
            IF ~r.ok THEN CodecFail("step_2", s, "FailedHandshakeStep2")
            ELSE /\ codec_state' = [codec_state EXCEPT ![s] = r.st]
                 /\ ret' = CodecRet("step_2", s, "Ok", <<>>)
                 /\ UNCHANGED <<chanVars, decoder, buffer_size, wire, initiator_frame,
                                responder_frame>>

\* handshake_complete that answers true for every initialized state
handshake_complete_initialized(s) ==
    /\ codec_state[s] # NoCodecState
    /\ ret' = CodecRet("handshake_complete", s, "Ok", <<TRUE>>)
    /\ UNCHANGED <<chanVars, codecVars>>

\* Sv2CodecState::handshake_complete
handshake_complete(s) ==
    /\ codec_state[s] # NoCodecState
    /\ ret' = CodecRet("handshake_complete", s, "Ok",
                       <<codec_state[s].phase = "Transport">>)
    /\ UNCHANGED <<chanVars, codecVars>>

\* encode that writes the clone it encrypted with back to the codec state
encode_storing_state(s, message) ==
    /\ codec_state[s] # NoCodecState
    /\ Len(wire[s]) + Len(wire[Peer(s)]) < 2 * MaxFrames
    /\ LET c == sv2_message_to_inner(message) IN
       IF ~c.ok THEN CodecFail("encode", s, "Sv2MessagesError")
       ELSE LET inner_state == codec_state[s]
                r == InnerEncode(c.msg, message, inner_state)
            IN  IF ~r.ok THEN CodecFail("encode", s, "FailedToConvertMessageToFrame")
                ELSE /\ wire' = [wire EXCEPT ![Peer(s)] = @ \o r.cells]
                     /\ codec_state' = [codec_state EXCEPT ![s] = r.st]
                     /\ ret' = CodecRet("encode", s, "Ok", <<>>)
                     /\ UNCHANGED <<chanVars, decoder, buffer_size,
                                    initiator_frame, responder_frame>>

\* Sv2Encoder::encode with the codec state of side s; the caller writes the
\* returned bytes to the connection.  The state is cloned, the clone encrypts,
\* and the clone is dropped.
encode(s, message) ==
    /\ codec_state[s] # NoCodecState
    /\ Len(wire[s]) + Len(wire[Peer(s)]) < 2 * MaxFrames
    /\ LET c == sv2_message_to_inner(message) IN
       IF ~c.ok THEN CodecFail("encode", s, "Sv2MessagesError")
       ELSE LET inner_state == codec_state[s]
                r == InnerEncode(c.msg, message, inner_state)
            IN  IF ~r.ok THEN CodecFail("encode", s, "FailedToConvertMessageToFrame")
                ELSE /\ wire' = [wire EXCEPT ![Peer(s)] = @ \o r.cells]
                     /\ ret' = CodecRet("encode", s, "Ok", <<>>)
                     /\ UNCHANGED <<chanVars, codec_state, decoder, buffer_size,
                                    initiator_frame, responder_frame>>

\* the bytes a caller hands to try_decode: their number, and the part of
\* the stream they are (NoCell for no bytes, or for bytes of the caller's own)
NoData == [len |-> 0, cell |-> NoCell]

\* the connection after the caller took the data from it
Taken(s, data) ==
    IF data.cell = NoCell THEN wire
    ELSE [wire EXCEPT ![s] = Tail(@)]

\* try_decode that stores the codec state only when a frame is complete
try_decode_late_store(s, data) ==
    /\ codec_state[s] # NoCodecState
    /\ data.cell # NoCell => (wire[s] # <<>> /\ data.cell = Head(wire[s]))
    /\ LET inner_state == codec_state[s] IN
       IF data.len # 0 /\ WritableLen(decoder[s]) # data.len
       THEN /\ ret' = CodecRet("try_decode", s, "InvalidDataSize",
                               <<WritableLen(decoder[s]), data.len>>)
            /\ wire' = Taken(s, data)
            /\ UNCHANGED <<chanVars, codec_state, decoder, buffer_size,
                           initiator_frame, responder_frame>>
       ELSE
       LET written == IF data.len = 0 THEN decoder[s]
                      ELSE [decoder[s] EXCEPT !.noise_buffer = Append(@, data.cell)]
           r == InnerNextFrame(written, inner_state)
           parsed == InnerParse(r.frame)
       IN  /\ decoder' = [decoder EXCEPT ![s] = r.d]
           /\ wire' = Taken(s, data)
           /\ CASE r.res = "Ok" /\ parsed.ok ->
                     /\ codec_state' = [codec_state EXCEPT ![s] = r.st]
                     /\ buffer_size' = [buffer_size EXCEPT ![s] = 0]
                     /\ ret' = CodecRet("try_decode", s, "Ok",
                                        <<inner_to_sv2_message(parsed.msg)>>)
                [] r.res = "Ok" /\ ~parsed.ok ->
                     /\ ret' = CodecRet("try_decode", s, "FailedToDecodeFrame", <<>>)
                     /\ UNCHANGED <<codec_state, buffer_size>>
                [] r.res = "MissingBytes" ->
                     /\ codec_state' = codec_state
                     /\ buffer_size' = [buffer_size EXCEPT ![s] = r.n]
                     /\ ret' = CodecRet("try_decode", s, "MissingBytes", <<>>)
                [] r.res = "Err" ->
                     /\ ret' = CodecRet("try_decode", s, "FailedToDecodeFrame", <<>>)
                     /\ UNCHANGED <<codec_state, buffer_size>>
           /\ UNCHANGED <<chanVars, initiator_frame, responder_frame>>

\* try_decode that leaves buffer_size as it was when a frame is complete
try_decode_no_reset(s, data) ==
    /\ codec_state[s] # NoCodecState
    /\ data.cell # NoCell => (wire[s] # <<>> /\ data.cell = Head(wire[s]))
    /\ LET inner_state == codec_state[s] IN
       IF data.len # 0 /\ WritableLen(decoder[s]) # data.len
       THEN /\ ret' = CodecRet("try_decode", s, "InvalidDataSize",
                               <<WritableLen(decoder[s]), data.len>>)
            /\ wire' = Taken(s, data)
            /\ UNCHANGED <<chanVars, codec_state, decoder, buffer_size,
                           initiator_frame, responder_frame>>
       ELSE
       LET written == IF data.len = 0 THEN decoder[s]
                      ELSE [decoder[s] EXCEPT !.noise_buffer = Append(@, data.cell)]
           r == InnerNextFrame(written, inner_state)
           parsed == InnerParse(r.frame)
       IN  /\ decoder' = [decoder EXCEPT ![s] = r.d]
           /\ wire' = Taken(s, data)
           /\ CASE r.res = "Ok" /\ parsed.ok ->
                     /\ codec_state' = [codec_state EXCEPT ![s] = r.st]
                     /\ buffer_size' = buffer_size
                     /\ ret' = CodecRet("try_decode", s, "Ok",
                                        <<inner_to_sv2_message(parsed.msg)>>)
                [] r.res = "Ok" /\ ~parsed.ok ->
                     /\ ret' = CodecRet("try_decode", s, "FailedToDecodeFrame", <<>>)
                     /\ UNCHANGED <<codec_state, buffer_size>>
                [] r.res = "MissingBytes" ->
                     /\ codec_state' = [codec_state EXCEPT ![s] = r.st]
                     /\ buffer_size' = [buffer_size EXCEPT ![s] = r.n]
                     /\ ret' = CodecRet("try_decode", s, "MissingBytes", <<>>)
                [] r.res = "Err" ->
                     /\ ret' = CodecRet("try_decode", s, "FailedToDecodeFrame", <<>>)
                     /\ UNCHANGED <<codec_state, buffer_size>>
           /\ UNCHANGED <<chanVars, initiator_frame, responder_frame>>

\* try_decode that drops the header it holds when bytes are missing
try_decode_starting_over(s, data) ==
    /\ codec_state[s] # NoCodecState
    /\ data.cell # NoCell => (wire[s] # <<>> /\ data.cell = Head(wire[s]))
    /\ LET inner_state == codec_state[s] IN
       IF data.len # 0 /\ WritableLen(decoder[s]) # data.len
       THEN /\ ret' = CodecRet("try_decode", s, "InvalidDataSize",
                               <<WritableLen(decoder[s]), data.len>>)
            /\ wire' = Taken(s, data)
            /\ UNCHANGED <<chanVars, codec_state, decoder, buffer_size,
                           initiator_frame, responder_frame>>
       ELSE
       LET written == IF data.len = 0 THEN decoder[s]
                      ELSE [decoder[s] EXCEPT !.noise_buffer = Append(@, data.cell)]
           r == InnerNextFrame(written, inner_state)
           parsed == InnerParse(r.frame)
       IN  /\ decoder' = [decoder EXCEPT ![s] = IF r.res = "MissingBytes"
                                                 THEN [r.d EXCEPT !.sv2_buffer = NoCell]
                                                 ELSE r.d]
           /\ wire' = Taken(s, data)
           /\ CASE r.res = "Ok" /\ parsed.ok ->
                     /\ codec_state' = [codec_state EXCEPT ![s] = r.st]
                     /\ buffer_size' = [buffer_size EXCEPT ![s] = 0]
                     /\ ret' = CodecRet("try_decode", s, "Ok",
                                        <<inner_to_sv2_message(parsed.msg)>>)
                [] r.res = "Ok" /\ ~parsed.ok ->
                     /\ ret' = CodecRet("try_decode", s, "FailedToDecodeFrame", <<>>)
                     /\ UNCHANGED <<codec_state, buffer_size>>
                [] r.res = "MissingBytes" ->
                     /\ codec_state' = [codec_state EXCEPT ![s] = r.st]
                     /\ buffer_size' = [buffer_size EXCEPT ![s] = r.n]
                     /\ ret' = CodecRet("try_decode", s, "MissingBytes", <<>>)
                [] r.res = "Err" ->
                     /\ ret' = CodecRet("try_decode", s, "FailedToDecodeFrame", <<>>)
                     /\ UNCHANGED <<codec_state, buffer_size>>
           /\ UNCHANGED <<chanVars, initiator_frame, responder_frame>>

\* try_decode that leaves buffer_size as it is when bytes are missing
try_decode_keeping_size(s, data) ==
    /\ codec_state[s] # NoCodecState
    /\ data.cell # NoCell => (wire[s] # <<>> /\ data.cell = Head(wire[s]))
    /\ LET inner_state == codec_state[s] IN
       IF data.len # 0 /\ WritableLen(decoder[s]) # data.len
       THEN /\ ret' = CodecRet("try_decode", s, "InvalidDataSize",
                               <<WritableLen(decoder[s]), data.len>>)
            /\ wire' = Taken(s, data)
            /\ UNCHANGED <<chanVars, codec_state, decoder, buffer_size,
                           initiator_frame, responder_frame>>
       ELSE
       LET written == IF data.len = 0 THEN decoder[s]
                      ELSE [decoder[s] EXCEPT !.noise_buffer = Append(@, data.cell)]
           r == InnerNextFrame(written, inner_state)
           parsed == InnerParse(r.frame)
       IN  /\ decoder' = [decoder EXCEPT ![s] = r.d]
           /\ wire' = Taken(s, data)
           /\ CASE r.res = "Ok" /\ parsed.ok ->
                     /\ codec_state' = [codec_state EXCEPT ![s] = r.st]
                     /\ buffer_size' = [buffer_size EXCEPT ![s] = 0]
                     /\ ret' = CodecRet("try_decode", s, "Ok",
                                        <<inner_to_sv2_message(parsed.msg)>>)
                [] r.res = "Ok" /\ ~parsed.ok ->
                     /\ ret' = CodecRet("try_decode", s, "FailedToDecodeFrame", <<>>)
                     /\ UNCHANGED <<codec_state, buffer_size>>
                [] r.res = "MissingBytes" ->
                     /\ codec_state' = [codec_state EXCEPT ![s] = r.st]
                     /\ buffer_size' = buffer_size
                     /\ ret' = CodecRet("try_decode", s, "MissingBytes", <<>>)
                [] r.res = "Err" ->
                     /\ ret' = CodecRet("try_decode", s, "FailedToDecodeFrame", <<>>)
                     /\ UNCHANGED <<codec_state, buffer_size>>
           /\ UNCHANGED <<chanVars, initiator_frame, responder_frame>>

\* Sv2Decoder::try_decode with the codec state of side s
try_decode(s, data) ==
    /\ codec_state[s] # NoCodecState
    /\ data.cell # NoCell => (wire[s] # <<>> /\ data.cell = Head(wire[s]))
    /\ LET inner_state == codec_state[s] IN
       IF data.len # 0 /\ WritableLen(decoder[s]) # data.len
       THEN /\ ret' = CodecRet("try_decode", s, "InvalidDataSize",
                               <<WritableLen(decoder[s]), data.len>>)
            /\ wire' = Taken(s, data)
            /\ UNCHANGED <<chanVars, codec_state, decoder, buffer_size,
                           initiator_frame, responder_frame>>
       ELSE
       LET written == IF data.len = 0 THEN decoder[s]
                      ELSE [decoder[s] EXCEPT !.noise_buffer = Append(@, data.cell)]
           r == InnerNextFrame(written, inner_state)
           parsed == InnerParse(r.frame)
       IN  /\ decoder' = [decoder EXCEPT ![s] = r.d]
           /\ wire' = Taken(s, data)
           /\ CASE r.res = "Ok" /\ parsed.ok ->
                     /\ codec_state' = [codec_state EXCEPT ![s] = r.st]
                     /\ buffer_size' = [buffer_size EXCEPT ![s] = 0]
                     /\ ret' = CodecRet("try_decode", s, "Ok",
                                        <<inner_to_sv2_message(parsed.msg)>>)
                [] r.res = "Ok" /\ ~parsed.ok ->
                     /\ ret' = CodecRet("try_decode", s, "FailedToDecodeFrame", <<>>)
                     /\ UNCHANGED <<codec_state, buffer_size>>
                [] r.res = "MissingBytes" ->
                     /\ codec_state' = [codec_state EXCEPT ![s] = r.st]
                     /\ buffer_size' = [buffer_size EXCEPT ![s] = r.n]
                     /\ ret' = CodecRet("try_decode", s, "MissingBytes", <<>>)
                [] r.res = "Err" ->
                     /\ ret' = CodecRet("try_decode", s, "FailedToDecodeFrame", <<>>)
                     /\ UNCHANGED <<codec_state, buffer_size>>
           /\ UNCHANGED <<chanVars, initiator_frame, responder_frame>>

\* A conforming sender at side s (the peer's own implementation), once the
\* handshake is over: the frame is sealed under its state and the state is
\* kept, its nonce advanced.
peer_encode(s, message) ==
    /\ \A x \in Sides : codec_state[x].phase = "Transport"
    /\ Len(wire[Peer(s)]) < 2 * MaxFrames
    /\ codec_state[s].send_n < 2 * MaxFrames
    /\ LET c == sv2_message_to_inner(message)
           r == InnerEncode(c.msg, message, codec_state[s])
       IN  /\ c.ok /\ r.ok
           /\ wire' = [wire EXCEPT ![Peer(s)] = @ \o r.cells]
           /\ codec_state' = [codec_state EXCEPT ![s] = r.st]
           /\ ret' = CodecRet("peer_encode", s, "Ok", <<>>)
           /\ UNCHANGED <<chanVars, decoder, buffer_size, initiator_frame,
                          responder_frame>>

\* what a caller that reads exactly buffer_size() bytes hands to try_decode:
\* no bytes when buffer_size() is 0, else the next buffer_size() bytes of
\* the stream, once they have arrived
ReadInputs(s) ==
    IF buffer_size[s] = 0 THEN {NoData}
    ELSE {[len |-> buffer_size[s], cell |-> c] :
             c \in {x \in {IF wire[s] = <<>> THEN NoCell ELSE Head(wire[s])} :
                       x # NoCell /\ x.len = buffer_size[s]}}

\* one turn of the caller's read loop on a state in Transport
read_loop(s) ==
    /\ codec_state[s].phase = "Transport"
    /\ \E data \in ReadInputs(s) : try_decode(s, data)

(***************************************************************************)
(* The extranonce prefix factories                                         *)
(* (src/src/channels/server/extranonce_prefix.rs) and the threads that     *)
(* call into the channel: the values they start from.                      *)
(***************************************************************************)
NoFactory == [exists |-> FALSE, variant |-> "None", static_len |-> 0,
              allocation_size |-> 0, cursor |-> 0]

Threads == {1, 2}
NoThread == 0
NoArg == [kind |-> "None"]

\* ---- the allocator (mining_sv2::ExtendedExtranonce), from the design
\* specification: a prefix is the static prefix followed by allocation_size
\* bytes that spell the allocation cursor
MaxPrefixes == 257     \* prefixes one factory is asked for: at most MaxPrefixes
ByteValues == 256

\* how many prefixes allocation_size bytes can spell; more than MaxPrefixes
\* calls are never made, so a space of two bytes or more is not exhausted
PrefixCapacity(allocation_size) ==
    IF allocation_size = 0 THEN 1
    ELSE IF allocation_size = 1 THEN ByteValues
    ELSE ByteValues * ByteValues

StaticLen(static_prefix) == IF static_prefix.some THEN static_prefix.len ELSE 0

\* ExtendedExtranonce::new(0..0, 0..allocation_size, allocation_size..32, static)
InnerExtendedExtranonceNew(variant, allocation_size, static_prefix) ==
    IF StaticLen(static_prefix) + allocation_size > FULL_EXTRANONCE_LEN
    THEN [ok |-> FALSE, f |-> NoFactory]
    ELSE [ok |-> TRUE,
          f |-> [exists |-> TRUE, variant |-> variant,
                 static_len |-> StaticLen(static_prefix),
                 allocation_size |-> allocation_size, cursor |-> 0]]

\* next_prefix_extended(min_required_len) / next_prefix_standard(): the next
\* unused prefix, and the allocator with its cursor advanced
InnerNextPrefix(f, min_required_len) ==
    IF \/ f.static_len + f.allocation_size + min_required_len > FULL_EXTRANONCE_LEN
       \/ f.cursor >= PrefixCapacity(f.allocation_size)
    THEN [ok |-> FALSE, prefix |-> <<>>, f |-> f]
    ELSE [ok |-> TRUE,
          prefix |-> <<f.static_len + f.allocation_size, f.cursor>>,
          f |-> [f EXCEPT !.cursor = @ + 1]]

\* ---- the factory wrappers
PrefixLen(prefix) == prefix[1]

FactoryRet(op, res, v) == Ret(op, res, v, NoShare)

\* Sv2ExtranoncePrefixFactoryExtended::new that falls back to an allocator
\* without a static prefix when the engine refuses the ranges
ExtendedFactoryNew_defaulting(allocation_size, static_prefix) ==
    /\ ~factory.exists
    /\ LET r == InnerExtendedExtranonceNew("Extended", allocation_size, static_prefix) IN
       /\ factory' = IF r.ok THEN r.f
                     ELSE [NoFactory EXCEPT !.exists = TRUE, !.variant = "Extended"]
       /\ ret' = FactoryRet("factory_new", "Ok", <<>>)
       /\ UNCHANGED <<issued, returned>>

\* Sv2ExtranoncePrefixFactoryExtended::new
ExtendedFactoryNew(allocation_size, static_prefix) ==
    /\ ~factory.exists
    /\ LET r == InnerExtendedExtranonceNew("Extended", allocation_size, static_prefix) IN
       IF ~r.ok
       THEN /\ ret' = FactoryRet("factory_new", "FailedToCreateExtendedExtranonce", <<>>)
            /\ UNCHANGED <<factory, issued, returned>>
       ELSE /\ factory' = r.f
            /\ ret' = FactoryRet("factory_new", "Ok", <<>>)
            /\ UNCHANGED <<issued, returned>>

\* Sv2ExtranoncePrefixFactoryStandard::new: one byte is allocated
StandardFactoryNew(static_prefix) ==
    /\ ~factory.exists
    /\ LET r == InnerExtendedExtranonceNew("Standard", 1, static_prefix) IN
       IF ~r.ok
       THEN /\ ret' = FactoryRet("factory_new", "FailedToCreateExtendedExtranonce", <<>>)
            /\ UNCHANGED <<factory, issued, returned>>
       ELSE /\ factory' = r.f
            /\ ret' = FactoryRet("factory_new", "Ok", <<>>)
            /\ UNCHANGED <<issued, returned>>

\* next_extranonce_prefix that asks a copy of the allocator: the advanced
\* cursor is not stored
next_extranonce_prefix_on_clone(min_required_len) ==
    /\ factory.exists /\ factory.variant = "Extended"
    /\ returned < MaxPrefixes
    /\ LET r == InnerNextPrefix(factory, min_required_len) IN
       IF ~r.ok
       THEN /\ ret' = FactoryRet("next_extranonce_prefix",
                                 "FailedToCreateExtranoncePrefix", <<>>)
            /\ UNCHANGED <<factory, issued, returned>>
       ELSE /\ factory' = factory
            /\ issued' = issued \cup {r.prefix}
            /\ returned' = returned + 1
            /\ ret' = FactoryRet("next_extranonce_prefix", "Ok", <<r.prefix>>)

\* next_extranonce_prefix that answers the bare static prefix when the
\* allocator has no prefix to give
next_extranonce_prefix_defaulting(min_required_len) ==
    /\ factory.exists /\ factory.variant = "Extended"
    /\ returned < MaxPrefixes
    /\ LET r == InnerNextPrefix(factory, min_required_len)
           given == IF r.ok THEN r.prefix
                    ELSE <<factory.static_len + factory.allocation_size, 0>>
       IN  /\ factory' = r.f
           /\ issued' = issued \cup {given}
           /\ returned' = returned + 1
           /\ ret' = FactoryRet("next_extranonce_prefix", "Ok", <<given>>)

\* Sv2ExtranoncePrefixFactoryExtended::next_extranonce_prefix: the whole call
\* runs under the factory's lock
next_extranonce_prefix(min_required_len) ==
    /\ factory.exists /\ factory.variant = "Extended"
    /\ returned < MaxPrefixes
    /\ LET r == InnerNextPrefix(factory, min_required_len) IN
       IF ~r.ok
       THEN /\ ret' = FactoryRet("next_extranonce_prefix",
                                 "FailedToCreateExtranoncePrefix", <<>>)
            /\ UNCHANGED <<factory, issued, returned>>
       ELSE /\ factory' = r.f
            /\ issued' = issued \cup {r.prefix}
            /\ returned' = returned + 1
            /\ ret' = FactoryRet("next_extranonce_prefix", "Ok", <<r.prefix>>)

\* Sv2ExtranoncePrefixFactoryStandard::next_extranonce_prefix
standard_next_extranonce_prefix ==
    /\ factory.exists /\ factory.variant = "Standard"
    /\ returned < MaxPrefixes
    /\ LET r == InnerNextPrefix(factory, 0) IN
       IF ~r.ok
       THEN /\ ret' = FactoryRet("next_extranonce_prefix",
                                 "FailedToCreateExtranoncePrefix", <<>>)
            /\ UNCHANGED <<factory, issued, returned>>
       ELSE /\ factory' = r.f
            /\ issued' = issued \cup {r.prefix}
            /\ returned' = returned + 1
            /\ ret' = FactoryRet("next_extranonce_prefix", "Ok", <<r.prefix>>)

Init ==
    /\ kind = "None"
    /\ opened = FALSE
    /\ max_target = 0
    /\ target = 0
    /\ nominal_hashrate = 0
    /\ share_batch_size = 0
    /\ version_rolling_allowed = FALSE
    /\ future_jobs = EmptyStore.future
    /\ active_job = EmptyStore.active
    /\ past_jobs = EmptyStore.past
    /\ future_template_to_job_id = EmptyStore.tmap
    /\ chain_tip = NoChainTip
    /\ job_id_factory = 1
    /\ share_accounting = NoAccounting
    /\ standard_channel_ids = {}
    /\ codec_state = [s \in Sides |-> NoCodecState]
    /\ decoder = [s \in Sides |-> NewDecoder]
    /\ buffer_size = [s \in Sides |-> WritableLen(NewDecoder)]
    /\ wire = [s \in Sides |-> <<>>]
    /\ initiator_frame = NoFrame
    /\ responder_frame = NoFrame
    /\ factory = NoFactory
    /\ issued = {}
    /\ returned = 0
    /\ pc = [t \in Threads |-> "idle"]
    /\ arg = [t \in Threads |-> NoArg]
    /\ channel_lock = NoThread
    /\ job_lock = NoThread
    /\ poisoned = {}
    /\ ret = Ret("None", "None", <<>>, NoShare)

(***************************************************************************)
(* Inputs offered to the channel.                                          *)
(***************************************************************************)
TargetVecs == ByteVec(VecLens, Targets)
OptTargetVecs == {NoneVec} \cup {SomeVec(v) : v \in TargetVecs}
HashVecs == ByteVec(VecLens, {1})
NetworkTargetVecs == ByteVec({U256Len}, {1})
MerklePaths == {<<U256Len>>, <<U256Len - 1>>}

NewTemplates ==
    [kind : {"NewTemplate"}, template_id : TemplateIds, future_template : BOOLEAN,
     merkle_path : MerklePaths, coinbase_prefix_len : {4}]
SetNewPrevHashes ==
    [kind : {"SetNewPrevHashTemplateDistribution"}, template_id : TemplateIds,
     prev_hash : HashVecs, target : NetworkTargetVecs]
SetCustomMiningJobs ==
    [kind : {"SetCustomMiningJob"}, prev_hash : HashVecs, merkle_path : MerklePaths]
ExtendedJobs == [id : JobIds, tpl : TemplateIds, future : BOOLEAN]
\* rolled: the share's version field differs from the job's version
Shares ==
    [kind : {"SubmitSharesStandard"}, sequence_number : SeqNums, job_id : JobIds,
     nonce : 0 .. MaxNonce, rolled : BOOLEAN]
    \cup
    [kind : {"SubmitSharesExtended"}, sequence_number : SeqNums, job_id : JobIds,
     nonce : 0 .. MaxNonce, rolled : BOOLEAN, extranonce_len : {4, B032Max + 1}]

\* One step of the channel is one call of the object's wrapper, its
\* arguments drawn from the domains D.
\* No thread is inside a call while a single caller drives the channel, and
\* the prefix factory is another object.
NextOpen(D) ==
    \/ \E v \in D.max_targets, h \in D.hashrates, b \in D.batches :
          StandardNew(v, h, b) /\ UNCHANGED <<prefixVars, threadVars>>
    \/ \E v \in D.max_targets, h \in D.hashrates, vr \in D.rolling,
          mr \in D.min_rollable, b \in D.batches :
          ExtendedNew(v, h, vr, 4, mr, b) /\ UNCHANGED <<prefixVars, threadVars>>
    \/ GroupNew /\ UNCHANGED <<prefixVars, threadVars>>

NextTarget(D) ==
    \E h \in D.hashrates, v \in D.updates :
       update_channel(h, v) /\ UNCHANGED <<prefixVars, threadVars>>

NextTemplates(D) ==
    \/ \E t \in D.templates :
          on_new_template(t) /\ UNCHANGED <<prefixVars, threadVars>>
    \/ \E m \in D.prev_hashes :
          on_set_new_prev_hash(m) /\ UNCHANGED <<prefixVars, threadVars>>
    \/ \E m \in D.custom_jobs :
          on_set_custom_mining_job(m) /\ UNCHANGED <<prefixVars, threadVars>>

NextGroupJobs(D) ==
    \E j \in D.group_jobs :
       on_group_channel_job(j) /\ UNCHANGED <<prefixVars, threadVars>>

NextShares(D) ==
    \E sh \in D.shares :
       validate_share(sh) /\ UNCHANGED <<prefixVars, threadVars>>

\* Spec: target, hashrate updates and share accounting of a channel that is
\* fed one template stream (template id 1).
ShareDomains ==
    [max_targets |-> {v \in TargetVecs : v.len = U256Len \/ v.val = MaxTargetVal},
     hashrates |-> Hashrates, batches |-> {2},
     rolling |-> BOOLEAN, min_rollable |-> {8, FULL_EXTRANONCE_LEN},
     updates |-> {v \in OptTargetVecs :
                     ~v.some \/ v.len = U256Len \/ v.val = MaxTargetVal},
     templates |-> {t \in NewTemplates : t.template_id = 1 /\ t.merkle_path = <<U256Len>>},
     prev_hashes |-> {m \in SetNewPrevHashes : m.template_id = 1 /\ m.prev_hash.len = U256Len},
     custom_jobs |-> {m \in SetCustomMiningJobs :
                         m.prev_hash.len = U256Len /\ m.merkle_path = <<U256Len>>},
     shares |-> {sh \in Shares :
                    \/ sh.kind = "SubmitSharesStandard" /\ ~sh.rolled
                    \/ sh.kind = "SubmitSharesExtended" /\ sh.extranonce_len <= B032Max
                          /\ (sh.rolled => sh.nonce = 0)
                    \/ sh.kind = "SubmitSharesExtended" /\ sh.sequence_number = 0
                          /\ sh.job_id = 1 /\ sh.nonce = 0 /\ ~sh.rolled}]

Spec ==
    Init /\ [][NextOpen(ShareDomains) \/ NextTarget(ShareDomains)
               \/ NextTemplates(ShareDomains) \/ NextShares(ShareDomains)]_vars

\* SpecJobs: the job store of a channel under every job event, jobs pushed
\* from a group included.  The target plays no part in the job store: the
\* channel is opened with one configuration and is not updated.
GroupJobs == {j \in ExtendedJobs : j.id = MaxJobId /\ j.tpl = 1}

JobDomains ==
    [max_targets |-> ByteVec({U256Len}, {MaxTargetVal}), hashrates |-> {1},
     batches |-> {2}, rolling |-> {TRUE}, min_rollable |-> {8},
     templates |-> NewTemplates,
     prev_hashes |-> SetNewPrevHashes,
     custom_jobs |-> SetCustomMiningJobs,
     group_jobs |-> GroupJobs,
     shares |-> {sh \in Shares : sh.sequence_number = 0 /\ ~sh.rolled}]

SpecJobs ==
    Init /\ [][NextOpen(JobDomains) \/ NextTemplates(JobDomains)
               \/ NextGroupJobs(JobDomains) \/ NextShares(JobDomains)]_vars

\* SpecBatch: share acknowledgement on a channel opened with one target and
\* a share batch size of 1 or 2, fed one template stream.
BatchDomains ==
    [max_targets |-> ByteVec({U256Len}, {MaxTargetVal}), hashrates |-> {1},
     batches |-> {1, 2}, rolling |-> {TRUE}, min_rollable |-> {8},
     templates |-> {t \in NewTemplates : t.template_id = 1 /\ t.merkle_path = <<U256Len>>},
     prev_hashes |-> {m \in SetNewPrevHashes : m.template_id = 1 /\ m.prev_hash.len = U256Len},
     custom_jobs |-> {m \in SetCustomMiningJobs :
                         m.prev_hash.len = U256Len /\ m.merkle_path = <<U256Len>>},
     shares |-> {sh \in Shares :
                    /\ ~sh.rolled
                    /\ sh.kind = "SubmitSharesExtended" => sh.extranonce_len <= B032Max}]

SpecBatch ==
    Init /\ [][NextOpen(BatchDomains) \/ NextTemplates(BatchDomains)
               \/ NextShares(BatchDomains)]_vars

\* SpecAck: the acknowledgements of a channel over more accepted shares than
\* one batch holds: share sequence numbers 0 .. MaxAckSeq, batch sizes 1 and
\* 2, every share submitted against the channel's first job.
MaxAckSeq == 3

AckShares ==
    [kind : {"SubmitSharesStandard"}, sequence_number : 0 .. MaxAckSeq,
     job_id : {1}, nonce : 0 .. MaxNonce, rolled : {FALSE}]
    \cup
    [kind : {"SubmitSharesExtended"}, sequence_number : 0 .. MaxAckSeq,
     job_id : {1}, nonce : 0 .. MaxNonce, rolled : {FALSE}, extranonce_len : {4}]

AckDomains == [BatchDomains EXCEPT !.shares = AckShares]

SpecAck ==
    Init /\ [][NextOpen(AckDomains) \/ NextTemplates(AckDomains)
               \/ NextShares(AckDomains)]_vars

\* SpecGroup: one Group channel, its members and its jobs.
MaxMembers == 3
MemberIds == 1 .. MaxMembers

GroupDomains ==
    [templates |-> {t \in NewTemplates : t.template_id = 1 /\ t.merkle_path = <<U256Len>>},
     prev_hashes |-> {m \in SetNewPrevHashes : m.prev_hash.len = U256Len}]

NextGroup ==
    \/ GroupNew /\ UNCHANGED <<prefixVars, threadVars>>
    \/ \E id \in MemberIds :
          add_standard_channel_id(id) /\ UNCHANGED <<prefixVars, threadVars>>
    \/ \E id \in MemberIds :
          remove_standard_channel_id(id) /\ UNCHANGED <<prefixVars, threadVars>>
    \/ get_standard_channel_ids /\ UNCHANGED <<prefixVars, threadVars>>
    \/ \E t \in GroupDomains.templates :
          on_new_template(t) /\ UNCHANGED <<prefixVars, threadVars>>
    \/ \E m \in GroupDomains.prev_hashes :
          on_set_new_prev_hash(m) /\ UNCHANGED <<prefixVars, threadVars>>
    \/ get_active_job /\ UNCHANGED <<prefixVars, threadVars>>

SpecGroup == Init /\ [][NextGroup]_vars

\* SpecErrors: every call of a channel that can fail, with arguments that
\* make it fail and arguments that do not, on a channel fed one template
\* stream.
ErrorDomains ==
    [max_targets |-> ByteVec(VecLens, {1, MaxTargetVal}), hashrates |-> Hashrates,
     batches |-> {2}, rolling |-> {TRUE}, min_rollable |-> {8, FULL_EXTRANONCE_LEN},
     updates |-> {v \in OptTargetVecs : ~v.some \/ v.val \in {0, MaxTargetVal}},
     templates |-> {t \in NewTemplates : t.template_id = 1},
     prev_hashes |-> {m \in SetNewPrevHashes : m.template_id = 1 \/ m.prev_hash.len = U256Len},
     custom_jobs |-> {m \in SetCustomMiningJobs : m.prev_hash.len = U256Len},
     group_jobs |-> GroupJobs,
     shares |-> {sh \in Shares :
                    /\ sh.sequence_number = 0 /\ sh.job_id = 1 /\ ~sh.rolled
                    /\ sh.kind = "SubmitSharesExtended" => sh.extranonce_len <= B032Max}]

NextErrors ==
    \/ NextOpen(ErrorDomains)
    \/ NextTarget(ErrorDomains)
    \/ NextTemplates(ErrorDomains)
    \/ NextGroupJobs(ErrorDomains)
    \/ NextShares(ErrorDomains)
    \/ get_active_job /\ UNCHANGED <<prefixVars, threadVars>>

SpecErrors == Init /\ [][NextErrors]_vars

(***************************************************************************)
(* SpecMessages: the two translation functions applied to messages of the  *)
(* boundary and to messages of the engine.                                 *)
(***************************************************************************)
MaxStrLen == 2         \* strings of at most MaxStrLen parts

StringsOver(parts) == UNION {[1 .. n -> parts] : n \in 0 .. MaxStrLen}

\* Reconnect messages of the boundary: new_host is a String
Reconnects ==
    [kind : {"Reconnect"}, new_host : StringsOver({"a", "a*254", "U+FFFD"}),
     new_port : {1}]

Sv2Messages ==
    NewTemplates \cup SetNewPrevHashes \cup SetCustomMiningJobs \cup Reconnects
    \cup Shares

\* messages of the engine: what the boundary's messages translate to, and
\* Reconnect messages whose new_host holds any bytes that fit a Str0255
InnerMessages ==
    {sv2_message_to_inner(m).msg : m \in {x \in Sv2Messages : sv2_message_to_inner(x).ok}}
    \cup {im \in [kind : {"Common.Reconnect"},
                   new_host : StringsOver({"a", "a*254", "U+FFFD", "0xFF"}),
                   new_port : {1}] : StrByteLen(im.new_host) <= B0255Max}

\* a caller translates a message of the boundary
translate_to_inner(m) ==
    /\ LET c == sv2_message_to_inner(m) IN
       ret' = Ret("sv2_message_to_inner", IF c.ok THEN "Ok" ELSE c.err,
                  <<m, c.msg>>, NoShare)
    /\ UNCHANGED <<chanVars, codecVars, prefixVars, threadVars>>

\* a caller translates a message of the engine
translate_to_sv2(im) ==
    /\ ret' = Ret("inner_to_sv2_message", "Ok", <<inner_to_sv2_message(im), im>>, NoShare)
    /\ UNCHANGED <<chanVars, codecVars, prefixVars, threadVars>>

NextMessages ==
    \/ \E m \in Sv2Messages : translate_to_inner(m)
    \/ \E im \in InnerMessages : translate_to_sv2(im)

SpecMessages == Init /\ [][NextMessages]_vars

(***************************************************************************)
(* SpecCodec: one connection, from the construction of the two codec       *)
(* states through the handshake to frames in both directions.              *)
(***************************************************************************)
KeyVecs == ByteVec({KEY_LEN - 1, KEY_LEN}, {1})
InitiatorKeyVecs == ByteVec({KEY_LEN - 1, KEY_LEN}, {1, 2})

\* handshake payloads a caller may pass on: the ones the steps returned, as
\* they are or one byte longer
HandshakeFrames ==
    LET made == {initiator_frame, responder_frame}
    IN  made \cup {[f EXCEPT !.len = @ + 1] : f \in made}

CodecMessages ==
    {sh \in Shares : sh.sequence_number = 0 /\ sh.job_id = 1 /\ sh.nonce = 0 /\ ~sh.rolled}

\* no bytes; the next part of the stream when it is as long as buffer_size()
\* says; one byte more than the decoder takes
DecodeInputs(s) ==
    {NoData}
    \cup {[len |-> WritableLen(decoder[s]) + 1, cell |-> NoCell]}
    \cup {[len |-> c.len, cell |-> c] :
             c \in {x \in {IF wire[s] = <<>> THEN NoCell ELSE Head(wire[s])} :
                       x # NoCell /\ x.len = buffer_size[s]}}

NextCodec ==
    \/ \E k \in InitiatorKeyVecs :
          new_initiator(k) /\ UNCHANGED <<prefixVars, threadVars>>
    \/ \E k \in KeyVecs, p \in KeyVecs :
          new_responder(k, p) /\ UNCHANGED <<prefixVars, threadVars>>
    \/ \E s \in Sides : step_0(s) /\ UNCHANGED <<prefixVars, threadVars>>
    \/ \E s \in Sides, f \in HandshakeFrames :
          step_1(s, f) /\ UNCHANGED <<prefixVars, threadVars>>
    \/ \E s \in Sides, f \in HandshakeFrames :
          step_2(s, f) /\ UNCHANGED <<prefixVars, threadVars>>
    \/ \E s \in Sides :
          handshake_complete(s) /\ UNCHANGED <<prefixVars, threadVars>>
    \/ \E s \in Sides, m \in CodecMessages :
          encode(s, m) /\ UNCHANGED <<prefixVars, threadVars>>
    \/ \E s \in Sides : \E data \in DecodeInputs(s) :
          try_decode(s, data) /\ UNCHANGED <<prefixVars, threadVars>>

SpecCodec == Init /\ [][NextCodec]_vars

\* SpecRead: the read loop of each side on a stream a conforming peer seals,
\* after a handshake with the right keys.  The loop runs whenever it can.
ReadKey == [len |-> KEY_LEN, val |-> 1]
ReadMessages == {m \in CodecMessages : m.kind = "SubmitSharesStandard"}

NextRead ==
    \/ new_initiator(ReadKey) /\ UNCHANGED <<prefixVars, threadVars>>
    \/ new_responder(ReadKey, ReadKey) /\ UNCHANGED <<prefixVars, threadVars>>
    \/ step_0("initiator") /\ UNCHANGED <<prefixVars, threadVars>>
    \/ step_1("responder", initiator_frame) /\ UNCHANGED <<prefixVars, threadVars>>
    \/ step_2("initiator", responder_frame) /\ UNCHANGED <<prefixVars, threadVars>>
    \/ \E s \in Sides, m \in ReadMessages :
          peer_encode(s, m) /\ UNCHANGED <<prefixVars, threadVars>>
    \/ \E s \in Sides : read_loop(s) /\ UNCHANGED <<prefixVars, threadVars>>

SpecRead ==
    /\ Init /\ [][NextRead]_vars
    /\ \A s \in Sides : WF_vars(read_loop(s) /\ UNCHANGED <<prefixVars, threadVars>>)

(***************************************************************************)
(* SpecPrefix: one extranonce prefix factory, Extended or Standard, from   *)
(* its construction through any sequence of calls; each call holds the     *)
(* factory's lock from its first line to its return, so calls of several   *)
(* threads are a sequence of whole calls.                                  *)
(***************************************************************************)
AllocationSizes == {1, 4, 29, 33}
StaticPrefixes == {NoneVec, SomeVec([len |-> 4, val |-> 1])}
MinRequiredLens == {0, 24, 25, 30}

NextPrefix ==
    \/ \E a \in AllocationSizes, sp \in StaticPrefixes :
          ExtendedFactoryNew(a, sp) /\ UNCHANGED <<chanVars, codecVars, threadVars>>
    \/ \E sp \in StaticPrefixes :
          StandardFactoryNew(sp) /\ UNCHANGED <<chanVars, codecVars, threadVars>>
    \/ \E n \in MinRequiredLens :
          next_extranonce_prefix(n) /\ UNCHANGED <<chanVars, codecVars, threadVars>>
    \/ standard_next_extranonce_prefix /\ UNCHANGED <<chanVars, codecVars, threadVars>>

SpecPrefix == Init /\ [][NextPrefix]_vars

(***************************************************************************)
(* SpecThreads: two threads calling into one channel object and into one   *)
(* Sv2ExtendedJob object.  A call is cut at its lock acquisitions: the     *)
(* thread asks for a Mutex, runs the rest of the wrapper's body once it    *)
(* holds what the body needs, and gives the guards back when it returns.   *)
(* No thread panics while it holds a Mutex, so lock() never answers        *)
(* LockError here.                                                         *)
(***************************************************************************)
ChannelOps == {"on_set_new_prev_hash", "validate_share", "on_group_channel_job"}
JobOps == {"get_job_id"}

\* the one Sv2ExtendedJob the threads share (an Arc<Sv2ExtendedJob>)
SharedJob == [id |-> MaxJobId, tpl |-> 1, future |-> TRUE]

ThreadDomains ==
    [max_targets |-> ByteVec({U256Len}, {MaxTargetVal}), hashrates |-> {1},
     batches |-> {2}, rolling |-> {TRUE}, min_rollable |-> {8},
     templates |-> {t \in NewTemplates : t.template_id = 1 /\ t.merkle_path = <<U256Len>>},
     prev_hashes |-> {m \in SetNewPrevHashes : m.template_id = 1 /\ m.prev_hash.len = U256Len},
     group_jobs |-> {SharedJob},
     shares |-> {sh \in Shares :
                    /\ sh.sequence_number = 0 /\ sh.job_id = 1 /\ ~sh.rolled
                    /\ sh.kind = "SubmitSharesExtended" => sh.extranonce_len <= B032Max}]

\* the arguments a thread may pass to the method op of the object it holds
ArgsOf(op) ==
    IF op = "on_set_new_prev_hash" THEN ThreadDomains.prev_hashes
    ELSE IF op = "validate_share"
    THEN {sh \in ThreadDomains.shares :
             sh.kind = IF kind = "Standard" THEN "SubmitSharesStandard"
                       ELSE "SubmitSharesExtended"}
    ELSE ThreadDomains.group_jobs

\* no thread is inside a call
Quiet == \A t \in Threads : pc[t] = "idle"

\* thread t enters the method op with the argument a; the first thing every
\* method does is ask for a Mutex
call(t, op, a) ==
    /\ pc[t] = "idle"
    /\ op \in JobOps \/ opened
    /\ op = "validate_share" => kind \in {"Standard", "Extended"}
    /\ op = "on_group_channel_job" => kind = "Standard"
    /\ pc' = [pc EXCEPT ![t] = IF op \in ChannelOps THEN "lock_channel" ELSE "lock_job"]
    /\ arg' = [arg EXCEPT ![t] = [kind |-> op, msg |-> a]]
    /\ UNCHANGED <<chanVars, codecVars, prefixVars, channel_lock, job_lock, ret, poisoned>>

\* self.inner.lock() answered although another thread may hold the guard
lock_channel_unguarded(t) ==
    /\ pc[t] = "lock_channel"
    /\ channel_lock' = t
    /\ pc' = [pc EXCEPT ![t] = IF arg[t].kind = "on_group_channel_job"
                               THEN "lock_job" ELSE "body"]
    /\ UNCHANGED <<chanVars, codecVars, prefixVars, arg, job_lock, ret, poisoned>>

\* self.inner.lock(): the thread waits until no thread holds the channel's
\* Mutex and then holds it
lock_channel(t) ==
    /\ pc[t] = "lock_channel"
    /\ channel_lock = NoThread
    /\ channel_lock' = t
    /\ pc' = [pc EXCEPT ![t] = IF arg[t].kind = "on_group_channel_job"
                               THEN "lock_job" ELSE "body"]
    /\ UNCHANGED <<chanVars, codecVars, prefixVars, arg, job_lock, ret, poisoned>>

\* extended_job.inner.lock() (on_group_channel_job, which holds the
\* channel's guard by then) or self.inner.lock() of the job's own getter
lock_job(t) ==
    /\ pc[t] = "lock_job"
    /\ job_lock = NoThread
    /\ job_lock' = t
    /\ pc' = [pc EXCEPT ![t] = "body"]
    /\ UNCHANGED <<chanVars, codecVars, prefixVars, arg, channel_lock, ret, poisoned>>

\* the rest of the method's body, run with the guards the thread holds
run_on_set_new_prev_hash(t) ==
    /\ pc[t] = "body" /\ arg[t].kind = "on_set_new_prev_hash"
    /\ on_set_new_prev_hash(arg[t].msg)
    /\ pc' = [pc EXCEPT ![t] = "return"]
    /\ UNCHANGED <<prefixVars, arg, channel_lock, job_lock, poisoned>>

run_validate_share(t) ==
    /\ pc[t] = "body" /\ arg[t].kind = "validate_share"
    /\ validate_share(arg[t].msg)
    /\ pc' = [pc EXCEPT ![t] = "return"]
    /\ UNCHANGED <<prefixVars, arg, channel_lock, job_lock, poisoned>>

run_on_group_channel_job(t) ==
    /\ pc[t] = "body" /\ arg[t].kind = "on_group_channel_job"
    /\ on_group_channel_job(arg[t].msg)
    /\ pc' = [pc EXCEPT ![t] = "return"]
    /\ UNCHANGED <<prefixVars, arg, channel_lock, job_lock, poisoned>>

\* Sv2ExtendedJob::get_job_id
run_get_job_id(t) ==
    /\ pc[t] = "body" /\ arg[t].kind = "get_job_id"
    /\ ret' = Ret("get_job_id", "Ok", <<arg[t].msg.id>>, NoShare)
    /\ pc' = [pc EXCEPT ![t] = "return"]
    /\ UNCHANGED <<chanVars, codecVars, prefixVars, arg, channel_lock, job_lock, poisoned>>

\* the method returns: its guards go out of scope, the job's before the
\* channel's, and both Mutexes the thread held are free
unlock(t) ==
    /\ pc[t] = "return"
    /\ channel_lock' = IF channel_lock = t THEN NoThread ELSE channel_lock
    /\ job_lock' = IF job_lock = t THEN NoThread ELSE job_lock
    /\ pc' = [pc EXCEPT ![t] = "idle"]
    /\ arg' = [arg EXCEPT ![t] = NoArg]
    /\ UNCHANGED <<chanVars, codecVars, prefixVars, ret, poisoned>>

\* The channel is constructed, and fed its templates, while no thread is
\* inside a call; from then on the threads call into it as they like.
NextThreads ==
    \/ Quiet /\ NextOpen(ThreadDomains)
    \/ Quiet /\ \E tpl \in ThreadDomains.templates :
                   on_new_template(tpl) /\ UNCHANGED <<prefixVars, threadVars>>
    \/ \E t \in Threads, op \in ChannelOps : \E a \in ArgsOf(op) : call(t, op, a)
    \/ \E t \in Threads : call(t, "get_job_id", SharedJob)
    \/ \E t \in Threads : lock_channel(t)
    \/ \E t \in Threads : lock_job(t)
    \/ \E t \in Threads : run_on_set_new_prev_hash(t)
    \/ \E t \in Threads : run_validate_share(t)
    \/ \E t \in Threads : run_on_group_channel_job(t)
    \/ \E t \in Threads : run_get_job_id(t)
    \/ \E t \in Threads : unlock(t)

SpecThreads == Init /\ [][NextThreads]_vars

(***************************************************************************)
(* SpecPoison: the objects when a Mutex is poisoned.  A std::sync::Mutex   *)
(* is poisoned when a thread panics while it holds the guard; from then on *)
(* lock() answers Err, which every method maps to its object's LockError.  *)
(* The objects share no state, so a behaviour drives one of them: a        *)
(* channel with the job pushed to it, or a connection's codec states,      *)
(* encoders and decoders, or a prefix factory.                             *)
(***************************************************************************)
MaxPoisoned == 1       \* Mutexes poisoned in one behaviour: at most MaxPoisoned

ChannelMutex == <<"channel", "-">>
JobMutex == <<"job", "-">>
FactoryMutex == <<"factory", "-">>
StateMutex(s) == <<"state", s>>
EncoderMutex(s) == <<"encoder", s>>
DecoderMutexes(s) == {<<"decoder", s>>, <<"buffer_size", s>>}

Mutexes ==
    {ChannelMutex, JobMutex, FactoryMutex}
    \cup {StateMutex(s) : s \in Sides} \cup {EncoderMutex(s) : s \in Sides}
    \cup UNION {DecoderMutexes(s) : s \in Sides}

\* the object the Mutex mx guards has been constructed
Constructed(mx) ==
    IF mx = ChannelMutex THEN opened
    ELSE IF mx = JobMutex THEN opened /\ kind = "Standard"
    ELSE IF mx = FactoryMutex THEN factory.exists
    ELSE codec_state[mx[2]] # NoCodecState

NoChannel == ~opened
NoCodec == \A s \in Sides : codec_state[s] = NoCodecState

\* a thread panicked while it held the guard of mx
panic_holding(mx) ==
    /\ mx \notin poisoned /\ Constructed(mx)
    /\ Cardinality(poisoned) < MaxPoisoned
    /\ poisoned' = poisoned \cup {mx}
    /\ UNCHANGED <<chanVars, codecVars, prefixVars, pc, arg, channel_lock, job_lock, ret>>

\* a method that ignores what lock() answered
Locked_ignoring(mxs, early, fail, body) == body

\* `.lock().map_err(|_| ...::LockError)?` on the Mutexes mxs of a method:
\* early says that the method has returned an error of its own before it
\* reached its first lock(), fail is the method returning LockError, body is
\* the method when every lock() answered a guard
Locked(mxs, early, fail, body) ==
    IF ~early /\ mxs \cap poisoned # {} THEN fail ELSE body

PoisonHashrates == {0, 1}
PoisonUpdates ==
    {NoneVec, SomeVec([len |-> U256Len - 1, val |-> MaxTargetVal]),
     SomeVec([len |-> U256Len, val |-> MaxTargetVal])}

\* the channel's methods, their lock() included
update_channel_locking(hashrate, requested_max_target) ==
    /\ opened /\ kind \in {"Standard", "Extended"}
    /\ Locked({ChannelMutex},
              requested_max_target.some /\ ~TargetFromVec(requested_max_target).ok,
              Fail("update_channel", "LockError"),
              update_channel(hashrate, requested_max_target))
    /\ UNCHANGED <<prefixVars, threadVars>>

on_new_template_locking(template) ==
    /\ opened /\ job_id_factory <= MaxJobId
    /\ Locked({ChannelMutex}, FALSE, Fail("on_new_template", "LockError"),
              on_new_template(template))
    /\ UNCHANGED <<prefixVars, threadVars>>

on_set_new_prev_hash_locking(set_new_prev_hash) ==
    /\ opened
    /\ Locked({ChannelMutex}, FALSE, Fail("on_set_new_prev_hash", "LockError"),
              on_set_new_prev_hash(set_new_prev_hash))
    /\ UNCHANGED <<prefixVars, threadVars>>

validate_share_locking(share) ==
    /\ opened /\ kind \in {"Standard", "Extended"}
    /\ share \in ArgsOf("validate_share")
    /\ Locked({ChannelMutex}, FALSE, Fail("validate_share", "LockError"),
              validate_share(share))
    /\ UNCHANGED <<prefixVars, threadVars>>

\* on_group_channel_job locks the channel and then the job
on_group_channel_job_locking(extended_job) ==
    /\ opened /\ kind = "Standard"
    /\ Locked({ChannelMutex, JobMutex}, FALSE,
              Fail("on_group_channel_job", "LockError"),
              on_group_channel_job(extended_job))
    /\ UNCHANGED <<prefixVars, threadVars>>

\* Sv2ExtendedJob::get_job_id
get_job_id_locking ==
    /\ opened /\ kind = "Standard"
    /\ Locked({JobMutex}, FALSE, Fail("get_job_id", "LockError"),
              /\ ret' = Ret("get_job_id", "Ok", <<SharedJob.id>>, NoShare)
              /\ UNCHANGED <<chanVars, codecVars>>)
    /\ UNCHANGED <<prefixVars, threadVars>>

\* the codec state's methods: step_1 and step_2 check the frame's length
\* before they lock
step_0_locking(s) ==
    /\ codec_state[s] # NoCodecState
    /\ Locked({StateMutex(s)}, FALSE, CodecFail("step_0", s, "LockError"), step_0(s))
    /\ UNCHANGED <<prefixVars, threadVars>>

step_1_locking(s, frame) ==
    /\ codec_state[s] # NoCodecState
    /\ Locked({StateMutex(s)}, frame.len # ELLSWIFT_ENCODING_SIZE,
              CodecFail("step_1", s, "LockError"), step_1(s, frame))
    /\ UNCHANGED <<prefixVars, threadVars>>

step_2_locking(s, frame) ==
    /\ codec_state[s] # NoCodecState
    /\ Locked({StateMutex(s)}, frame.len # INITIATOR_EXPECTED_HANDSHAKE_MESSAGE_SIZE,
              CodecFail("step_2", s, "LockError"), step_2(s, frame))
    /\ UNCHANGED <<prefixVars, threadVars>>

handshake_complete_locking(s) ==
    /\ codec_state[s] # NoCodecState
    /\ Locked({StateMutex(s)}, FALSE, CodecFail("handshake_complete", s, "LockError"),
              handshake_complete(s))
    /\ UNCHANGED <<prefixVars, threadVars>>

\* Sv2Encoder::encode locks the encoder, translates the message, and locks
\* the codec state only then; one frame is in flight at a time
encode_locking(s, message) ==
    /\ codec_state[s] # NoCodecState
    /\ \A x \in Sides : wire[x] = <<>>
    /\ Locked({EncoderMutex(s)}, FALSE, CodecFail("encode", s, "LockError"),
              Locked({StateMutex(s)}, ~sv2_message_to_inner(message).ok,
                     CodecFail("encode", s, "LockError"), encode(s, message)))
    /\ UNCHANGED <<prefixVars, threadVars>>

\* Sv2Decoder::try_decode locks the decoder, its buffer size and the codec
\* state before it looks at the bytes; the caller has taken them from the
\* connection
try_decode_locking(s, data) ==
    /\ codec_state[s] # NoCodecState
    /\ data.cell # NoCell => (wire[s] # <<>> /\ data.cell = Head(wire[s]))
    /\ Locked(DecoderMutexes(s) \cup {StateMutex(s)}, FALSE,
              /\ ret' = CodecRet("try_decode", s, "LockError", <<>>)
              /\ wire' = Taken(s, data)
              /\ UNCHANGED <<chanVars, codec_state, decoder, buffer_size,
                             initiator_frame, responder_frame>>,
              try_decode(s, data))
    /\ UNCHANGED <<prefixVars, threadVars>>

\* the factory's method
next_extranonce_prefix_locking(min_required_len) ==
    /\ factory.exists /\ factory.variant = "Extended"
    /\ Locked({FactoryMutex}, FALSE,
              /\ ret' = FactoryRet("next_extranonce_prefix", "LockError", <<>>)
              /\ UNCHANGED prefixVars,
              next_extranonce_prefix(min_required_len))
    /\ UNCHANGED <<chanVars, codecVars, threadVars>>

NextPoison ==
    \/ \E mx \in Mutexes : panic_holding(mx)
    \/ NoCodec /\ ~factory.exists /\ NextOpen(ThreadDomains)
    \/ \E h \in PoisonHashrates, v \in PoisonUpdates : update_channel_locking(h, v)
    \/ \E tpl \in ThreadDomains.templates : on_new_template_locking(tpl)
    \/ \E m \in ThreadDomains.prev_hashes : on_set_new_prev_hash_locking(m)
    \/ \E sh \in ThreadDomains.shares : validate_share_locking(sh)
    \/ on_group_channel_job_locking(SharedJob)
    \/ get_job_id_locking
    \/ NoChannel /\ ~factory.exists /\ \E k \in InitiatorKeyVecs :
          new_initiator(k) /\ UNCHANGED <<prefixVars, threadVars>>
    \/ NoChannel /\ ~factory.exists /\ \E k \in KeyVecs, p \in KeyVecs :
          new_responder(k, p) /\ UNCHANGED <<prefixVars, threadVars>>
    \/ \E s \in Sides : step_0_locking(s)
    \/ \E s \in Sides, f \in HandshakeFrames : step_1_locking(s, f)
    \/ \E s \in Sides, f \in HandshakeFrames : step_2_locking(s, f)
    \/ \E s \in Sides : handshake_complete_locking(s)
    \/ \E s \in Sides, m \in CodecMessages : encode_locking(s, m)
    \/ \E s \in Sides : \E data \in DecodeInputs(s) : try_decode_locking(s, data)
    \/ NoChannel /\ NoCodec /\ \E a \in {1, 33}, sp \in StaticPrefixes :
          ExtendedFactoryNew(a, sp) /\ UNCHANGED <<chanVars, codecVars, threadVars>>
    \/ \E n \in MinRequiredLens : next_extranonce_prefix_locking(n)

SpecPoison == Init /\ [][NextPoison]_vars

(***************************************************************************)
(* SpecLocks: two threads calling into the codec objects of one side of    *)
(* the connection (its Sv2CodecState, its Sv2Decoder, its Sv2Encoder and a *)
(* second Sv2Decoder that shares the state), into a Standard channel and   *)
(* into the shared Sv2ExtendedJob.  A call is cut at its lock              *)
(* acquisitions.  A MutexGuard is a local variable of the call: the codec  *)
(* guards a thread holds are kept with the call's arguments and go out of  *)
(* scope when the call returns.  The objects are constructed, the          *)
(* initiator's half of the handshake is run and the peer's frames are put  *)
(* on the connection while no thread is inside a call.                     *)
(***************************************************************************)
LockSide == "responder"
CodecOps == {"try_decode", "try_decode_other", "encode", "step_1"}

CodecArg(op, a) ==
    [kind |-> op, msg |-> a, guards |-> {}, cloned |-> NoCodecState,
     inner_state |-> NoCodecState, res |-> "None", n |-> 0, out |-> <<>>]

\* the Mutexes whose guard thread t holds
Held(t) ==
    (IF arg[t].kind \in CodecOps THEN arg[t].guards ELSE {})
       \cup (IF channel_lock = t THEN {ChannelMutex} ELSE {})
       \cup (IF job_lock = t THEN {JobMutex} ELSE {})

Free(mx) == \A t \in Threads : mx \notin Held(t)

\* the encode calls that have not put their frame on the connection yet (one
\* frame is sent in a behaviour: the peer's side is not read)
Encoding == {t \in Threads : arg[t].kind = "encode"}

\* thread t enters a codec method; try_decode is handed the bytes the caller
\* took from the connection, step_1 a frame of the length it converts
call_codec(t, op, a) ==
    /\ pc[t] = "idle"
    /\ \A s \in Sides : codec_state[s] # NoCodecState
    /\ op \in {"try_decode", "try_decode_other"} =>
          (a.cell # NoCell => (wire[LockSide] # <<>> /\ a.cell = Head(wire[LockSide])))
    /\ op = "step_1" => a.len = ELLSWIFT_ENCODING_SIZE
    /\ op = "encode" => (wire[Peer(LockSide)] = <<>> /\ Encoding = {})
    /\ wire' = IF op \in {"try_decode", "try_decode_other"}
               THEN Taken(LockSide, a) ELSE wire
    /\ pc' = [pc EXCEPT ![t] = CASE op = "try_decode" -> "lock_decoder"
                                 [] op = "try_decode_other" -> "clone_state"
                                 [] op = "encode" -> "lock_encoder"
                                 [] op = "step_1" -> "lock_state"]
    /\ arg' = [arg EXCEPT ![t] = CodecArg(op, a)]
    /\ UNCHANGED <<chanVars, codec_state, decoder, buffer_size, initiator_frame,
                   responder_frame, prefixVars, channel_lock, job_lock, ret, poisoned>>

\* self.inner.lock() of the decoder (decoder.rs 56)
lock_decoder(t) ==
    /\ pc[t] = "lock_decoder"
    /\ Free(<<"decoder", LockSide>>)
    /\ arg' = [arg EXCEPT ![t].guards = @ \cup {<<"decoder", LockSide>>}]
    /\ pc' = [pc EXCEPT ![t] = "lock_buffer_size"]
    /\ UNCHANGED <<chanVars, codecVars, prefixVars, channel_lock, job_lock, ret, poisoned>>

\* self.buffer_size.lock() (decoder.rs 57-60)
lock_buffer_size(t) ==
    /\ pc[t] = "lock_buffer_size"
    /\ Free(<<"buffer_size", LockSide>>)
    /\ arg' = [arg EXCEPT ![t].guards = @ \cup {<<"buffer_size", LockSide>>}]
    /\ pc' = [pc EXCEPT ![t] = "clone_state"]
    /\ UNCHANGED <<chanVars, codecVars, prefixVars, channel_lock, job_lock, ret, poisoned>>

\* self.inner.lock() of the encoder, and the translation of the message
\* (encoder.rs 38-46)
lock_encoder(t) ==
    /\ pc[t] = "lock_encoder"
    /\ Free(EncoderMutex(LockSide))
    /\ arg' = [arg EXCEPT ![t].guards = @ \cup {EncoderMutex(LockSide)}]
    /\ IF sv2_message_to_inner(arg[t].msg).ok
       THEN /\ pc' = [pc EXCEPT ![t] = "clone_state"]
            /\ UNCHANGED <<chanVars, codecVars, ret>>
       ELSE /\ pc' = [pc EXCEPT ![t] = "return"]
            /\ CodecFail("encode", LockSide, "Sv2MessagesError")
    /\ UNCHANGED <<prefixVars, channel_lock, job_lock, poisoned>>

\* what try_decode does with the clone: the bytes are written to the
\* decoder, the engine decodes with the clone, and the call is left either
\* about to write the clone back or about to return an error
DecodeWithClone(t, st, kept) ==
    LET s == LockSide
        data == arg[t].msg
        own == arg[t].kind = "try_decode"
        d == IF own THEN decoder[s] ELSE NewDecoder
    IN  IF data.len # 0 /\ WritableLen(d) # data.len
        THEN /\ pc' = [pc EXCEPT ![t] = "return"]
             /\ arg' = [arg EXCEPT ![t].cloned = st, ![t].guards = @ \cup kept]
             /\ ret' = CodecRet("try_decode", s, "InvalidDataSize",
                                <<WritableLen(d), data.len>>)
             /\ UNCHANGED decoder
        ELSE
        LET written == IF data.len = 0 THEN d
                       ELSE [d EXCEPT !.noise_buffer = Append(@, data.cell)]
            r == InnerNextFrame(written, st)
            parsed == InnerParse(r.frame)
            stores == (r.res = "Ok" /\ parsed.ok) \/ r.res = "MissingBytes"
        IN  /\ pc' = [pc EXCEPT ![t] = IF stores THEN "store_state" ELSE "return"]
            /\ decoder' = IF own THEN [decoder EXCEPT ![s] = r.d] ELSE decoder
            /\ IF stores
               THEN /\ arg' = [arg EXCEPT ![t].cloned = st,
                                          ![t].guards = @ \cup kept,
                                          ![t].inner_state = r.st,
                                          ![t].res = r.res,
                                          ![t].n = r.n,
                                          ![t].out = IF r.res = "Ok"
                                                     THEN <<inner_to_sv2_message(parsed.msg)>>
                                                     ELSE <<>>]
                    /\ UNCHANGED ret
               ELSE /\ arg' = [arg EXCEPT ![t].cloned = st, ![t].guards = @ \cup kept]
                    /\ ret' = CodecRet("try_decode", s, "FailedToDecodeFrame", <<>>)

\* what encode does with the clone: the frame is sealed with it and
\* returned, and the clone is dropped
EncodeWithClone(t, st) ==
    LET s == LockSide
        c == sv2_message_to_inner(arg[t].msg)
        r == InnerEncode(c.msg, arg[t].msg, st)
    IN  /\ pc' = [pc EXCEPT ![t] = "return"]
        /\ arg' = [arg EXCEPT ![t].cloned = st]
        /\ UNCHANGED decoder
        /\ IF r.ok
           THEN /\ wire' = [wire EXCEPT ![Peer(s)] = @ \o r.cells]
                /\ ret' = CodecRet("encode", s, "Ok", <<>>)
           ELSE /\ ret' = CodecRet("encode", s, "FailedToConvertMessageToFrame", <<>>)
                /\ UNCHANGED wire

\* clone_state that keeps the guard of the codec state after the clone
clone_state_keeping_guard(t) ==
    /\ pc[t] = "clone_state"
    /\ Free(StateMutex(LockSide))
    /\ IF arg[t].kind = "encode"
       THEN EncodeWithClone(t, codec_state[LockSide])
       ELSE DecodeWithClone(t, codec_state[LockSide], {StateMutex(LockSide)})
               /\ UNCHANGED wire
    /\ UNCHANGED <<chanVars, codec_state, buffer_size, initiator_frame,
                   responder_frame, prefixVars, channel_lock, job_lock, poisoned>>

\* `state.inner.lock()...clone()`: the guard of the codec state is taken,
\* the state is cloned and the guard is dropped at the end of the statement
\* (decoder.rs 62-65, encoder.rs 48-52); the call goes on with the clone
clone_state(t) ==
    /\ pc[t] = "clone_state"
    /\ Free(StateMutex(LockSide))
    /\ IF arg[t].kind = "encode"
       THEN EncodeWithClone(t, codec_state[LockSide])
       ELSE DecodeWithClone(t, codec_state[LockSide], {}) /\ UNCHANGED wire
    /\ UNCHANGED <<chanVars, codec_state, buffer_size, initiator_frame,
                   responder_frame, prefixVars, channel_lock, job_lock, poisoned>>

\* `*state_guard = inner_state`: the guard of the codec state is taken again
\* and the clone is written over the state (decoder.rs 99-117); the buffer
\* size of the call's decoder is set and the call returns
store_state(t) ==
    /\ pc[t] = "store_state"
    /\ Free(StateMutex(LockSide))
    /\ pc' = [pc EXCEPT ![t] = "return"]
    /\ codec_state' = [codec_state EXCEPT ![LockSide] = arg[t].inner_state]
    /\ buffer_size' = IF arg[t].kind = "try_decode"
                      THEN [buffer_size EXCEPT ![LockSide] = arg[t].n]
                      ELSE buffer_size
    /\ ret' = CodecRet("try_decode", LockSide, arg[t].res, arg[t].out)
    /\ UNCHANGED <<chanVars, decoder, wire, initiator_frame, responder_frame,
                   prefixVars, arg, channel_lock, job_lock, poisoned>>

\* Sv2CodecState::step_1: the guard is held from the lock to the return
lock_state(t) ==
    /\ pc[t] = "lock_state"
    /\ Free(StateMutex(LockSide))
    /\ pc' = [pc EXCEPT ![t] = "return"]
    /\ arg' = [arg EXCEPT ![t].guards = @ \cup {StateMutex(LockSide)}]
    /\ step_1(LockSide, arg[t].msg)
    /\ UNCHANGED <<prefixVars, channel_lock, job_lock, poisoned>>

\* Sv2ExtendedJob::get_job_origin of the shared job, a job made from a
\* template, with the guard of the job held
run_get_job_origin(t) ==
    /\ pc[t] = "body" /\ arg[t].kind = "get_job_origin"
    /\ pc' = [pc EXCEPT ![t] = "return"]
    /\ ret' = Ret("get_job_origin", "Ok",
                  <<get_job_origin([origin |-> "NewTemplate"])>>, NoShare)
    /\ UNCHANGED <<chanVars, codecVars, prefixVars, arg, channel_lock, job_lock, poisoned>>

LockKey == [len |-> KEY_LEN, val |-> 1]
LockMessages == {m \in CodecMessages : m.kind = "SubmitSharesStandard"}

\* the objects are there and the handshake is over
Ready ==
    /\ opened
    /\ \A s \in Sides :
          codec_state[s] # NoCodecState /\ codec_state[s].phase = "Transport"

\* the calls a thread makes: either thread reads through the decoder; the
\* first one also feeds the channel, the second one also uses the encoder,
\* the other decoder, the state's own method and the job's
enter(t) ==
    \/ \E data \in ReadInputs(LockSide) : call_codec(t, "try_decode", data)
    \/ t = 1 /\ call(t, "on_group_channel_job", SharedJob)
    \/ t # 1 /\ \E m \in LockMessages : call_codec(t, "encode", m)
    \/ t # 1 /\ call(t, "get_job_origin", SharedJob)
    \/ t # 1 /\ call_codec(t, "try_decode_other", NoData)
    \/ t # 1 /\ call_codec(t, "step_1", initiator_frame)

\* the steps a thread takes once it is inside a call
proceed(t) ==
    \/ lock_channel(t)
    \/ lock_job(t)
    \/ lock_decoder(t)
    \/ lock_buffer_size(t)
    \/ lock_encoder(t)
    \/ clone_state(t)
    \/ store_state(t)
    \/ lock_state(t)
    \/ run_on_group_channel_job(t)
    \/ run_get_job_origin(t)
    \/ unlock(t)

\* the peer seals one frame for the side the threads read from
peer_sends ==
    /\ wire[LockSide] = <<>> /\ codec_state[Peer(LockSide)].send_n = 0
    /\ \E m \in LockMessages : peer_encode(Peer(LockSide), m)

NextLocks ==
    \/ new_initiator(LockKey) /\ UNCHANGED <<prefixVars, threadVars>>
    \/ codec_state["initiator"] # NoCodecState
          /\ new_responder(LockKey, LockKey) /\ UNCHANGED <<prefixVars, threadVars>>
    \/ ~opened /\ step_0("initiator") /\ UNCHANGED <<prefixVars, threadVars>>
    \/ ~opened /\ step_1("responder", initiator_frame) /\ UNCHANGED <<prefixVars, threadVars>>
    \/ ~opened /\ step_2("initiator", responder_frame) /\ UNCHANGED <<prefixVars, threadVars>>
    \/ \A s \in Sides : codec_state[s] # NoCodecState /\ codec_state[s].phase = "Transport"
          /\ \E v \in ThreadDomains.max_targets, h \in ThreadDomains.hashrates,
                b \in ThreadDomains.batches :
                StandardNew(v, h, b) /\ UNCHANGED <<prefixVars, threadVars>>
    \/ Quiet /\ Ready /\ peer_sends /\ UNCHANGED <<prefixVars, threadVars>>
    \/ \E t \in Threads : Ready /\ enter(t)
    \/ \E t \in Threads : proceed(t)

\* a thread that waits in lock() is given the guard at some time at which the
\* Mutex is free, and a thread that can run does (every step of proceed
\* moves the thread's pc)
SpecLocks ==
    /\ Init /\ [][NextLocks]_vars
    /\ \A t \in Threads : SF_pc(proceed(t))

(***************************************************************************)
(* Properties of the channel servers.                                      *)
(***************************************************************************)
IsMiningChannel == opened /\ kind \in {"Standard", "Extended"}

\* C1: on a Standard or Extended channel, after a successful open and after
\* any sequence of update_channel calls, accepted or rejected, the target is
\* less than or equal to the max target the channel was opened with.
TargetNeverExceedsMaxTarget ==
    IsMiningChannel => target <= max_target

\* an accepted update moved the target strictly below the ceiling
C1_Witness ==
    /\ IsMiningChannel
    /\ ret.op = "update_channel" /\ ret.res = "Ok"
    /\ nominal_hashrate = MaxHashrate
    /\ target < max_target

\* C2: a share submitted again right after it was accepted is answered
\* DuplicateShare and changes nothing in the accounting; and in any sequence
\* of submissions an accepted share is one whose sequence number was not
\* credited before, and it raises the accepted-count by exactly one.
DuplicateShareRejected ==
    [][ret'.op = "validate_share" =>
          /\ (ret.op = "validate_share" /\ ret.res \in AcceptedResults
                 /\ validate_share(ret.credited))
                => (ret'.res = "DuplicateShare"
                      /\ share_accounting' = share_accounting)
          /\ ret'.res \in AcceptedResults
                => (/\ validate_share(ret'.credited)
                    /\ ret'.credited.sequence_number \notin share_accounting.seen
                    /\ share_accounting'.shares_accepted
                          = share_accounting.shares_accepted + 1)]_vars

\* the same share was submitted twice in a row: accepted, then DuplicateShare,
\* with the accepted-count raised once
C2_Witness ==
    /\ IsMiningChannel
    /\ ret.op = "validate_share" /\ ret.res = "DuplicateShare"
    /\ share_accounting.shares_accepted = 1
    /\ Cardinality(share_accounting.seen) = 1

\* the share's job is found and is not stale, so that its hash is recomputed
HashIsRecomputed(sh) ==
    /\ sv2_message_to_inner(sh).ok
    /\ ResolveJob(Store, sh.job_id) # NoJob
    /\ ~IsStale(Store, sh.job_id)

\* C3: on a Standard or Extended channel, in every state the channel
\* reaches, every share whose recomputed hash is greater than the channel's
\* current target is answered DoesNotMeetTarget by validate_share, and the
\* share accounting (accepted-count included) is left as it was.
AboveTargetIsRejected ==
    IsMiningChannel =>
       \A sh \in Shares :
          (/\ sh.kind = (IF kind = "Standard" THEN "SubmitSharesStandard"
                         ELSE "SubmitSharesExtended")
           /\ HashIsRecomputed(sh)
           /\ ShareHash(sh, ResolveJob(Store, sh.job_id)) > target)
            => LET o == validate_share_result(sh) IN
               o.res = "DoesNotMeetTarget" /\ o.acct = share_accounting

\* a share was answered DoesNotMeetTarget on a channel that has credited a
\* share before
C3_Witness ==
    /\ IsMiningChannel
    /\ ret.op = "validate_share" /\ ret.res = "DoesNotMeetTarget"
    /\ share_accounting.shares_accepted > 0

\* the channel holds no future job for the template id
NoMatchingFutureJob(tpl) == ~InnerPromote(Store, tpl).ok

JobSetsUnchanged ==
    /\ active_job' = active_job
    /\ past_jobs' = past_jobs
    /\ future_jobs' = future_jobs
    /\ future_template_to_job_id' = future_template_to_job_id

ShareKindOf(k) ==
    IF k = "Standard" THEN "SubmitSharesStandard" ELSE "SubmitSharesExtended"

\* C17: in every state of a channel that has an established chain tip, a
\* share for a job id the channel holds neither in its active slot nor in
\* its past jobs is answered InvalidJobId by validate_share, and the share
\* accounting is left as it was.  (Every share of a Standard channel
\* translates; on an Extended channel the shares that translate are meant.)
UnknownJobIdIsInvalidJobId ==
    (IsMiningChannel /\ chain_tip.set) =>
       \A sh \in Shares :
          (/\ sh.kind = ShareKindOf(kind)
           /\ sv2_message_to_inner(sh).ok
           /\ ~(active_job # NoJob /\ active_job.id = sh.job_id)
           /\ \A i \in 1 .. Len(past_jobs) : past_jobs[i].id # sh.job_id)
            => LET o == validate_share_result(sh) IN
               o.res = "InvalidJobId" /\ o.acct = share_accounting

\* a Standard channel with a chain tip and a credited share answered
\* InvalidJobId
C17_Witness ==
    /\ opened /\ kind = "Standard"
    /\ chain_tip.set
    /\ ret.op = "validate_share" /\ ret.res = "InvalidJobId"
    /\ share_accounting.shares_accepted > 0

\* the share is for the active job, its sequence number is new, and its hash
\* is not above the channel's target and is above the network's
IsAcceptableShare(sh) ==
    /\ sh.kind = ShareKindOf(kind)
    /\ chain_tip.set
    /\ active_job # NoJob /\ active_job.id = sh.job_id
    /\ sh.sequence_number \notin share_accounting.seen
    /\ ShareHash(sh, active_job) <= target
    /\ ShareHash(sh, active_job) > chain_tip.target

\* C18 as stated: on a Standard channel whose active job was promoted by
\* on_set_new_prev_hash from a future template, a share for that job with a
\* new sequence number and a hash not above the channel's target and above
\* the network's is answered Valid and raises the accepted-count by one.
AcceptableShareIsValid ==
    (opened /\ kind = "Standard") =>
       \A sh \in Shares :
          IsAcceptableShare(sh)
            => LET o == validate_share_result(sh) IN
               /\ o.res = "Valid"
               /\ o.acct.shares_accepted = share_accounting.shares_accepted + 1

\* C18, amended: such a share is accepted and raises the accepted-count by
\* one; it is answered Valid, unless it completes a batch of share_batch_size
\* accepted shares, when it is answered ValidWithAcknowledgement.
AcceptableShareIsAccepted ==
    (opened /\ kind = "Standard") =>
       \A sh \in Shares :
          IsAcceptableShare(sh)
            => LET o == validate_share_result(sh) IN
               /\ o.res = IF share_accounting.since_ack + 1 >= share_batch_size
                          THEN "ValidWithAcknowledgement" ELSE "Valid"
               /\ o.acct.shares_accepted = share_accounting.shares_accepted + 1
               /\ o.acct.seen = share_accounting.seen \cup {sh.sequence_number}

\* the first share after on_new_template (future) and on_set_new_prev_hash
\* on a Standard channel was answered Valid
C18_Witness ==
    /\ opened /\ kind = "Standard"
    /\ active_job # NoJob /\ active_job.origin = "NewTemplate"
    /\ past_jobs = <<>>
    /\ chain_tip.set
    /\ ret.op = "validate_share" /\ ret.res = "Valid"
    /\ ret.credited.job_id = active_job.id
    /\ share_accounting.shares_accepted = 1

(***************************************************************************)
(* Properties of the codec.                                                *)
(***************************************************************************)
InTransport(s) == codec_state[s].phase = "Transport"

\* the bytes are the next part of the stream, in the size the decoder asked for
IsRequestedPart(s, data) ==
    /\ data.cell # NoCell
    /\ data.len = buffer_size[s]
    /\ data.len = WritableLen(decoder[s])

\* C6: decoding a frame does not depend on how many calls deliver it.  A
\* call that brings no bytes changes neither what the decoder has buffered
\* nor the codec state and asks again for what is missing; the header, once
\* delivered, makes the decoder ask for exactly the sealed payload; and the
\* payload, once delivered, yields the message the frame was made from and
\* leaves the codec state two nonces past the one that opened the header.
DecodeIndependentOfFragmentation ==
    [][\A s \in Sides : \A data \in DecodeInputs(s) :
          (ret'.op = "try_decode" /\ try_decode(s, data)) =>
             /\ (data = NoData /\ InTransport(s))
                   => /\ ret'.res = "MissingBytes"
                      /\ codec_state' = codec_state
                      /\ decoder'[s].noise_buffer = decoder[s].noise_buffer
                      /\ decoder'[s].sv2_buffer = decoder[s].sv2_buffer
                      /\ buffer_size'[s] =
                            IF decoder[s].sv2_buffer = NoCell
                            THEN ENCRYPTED_SV2_FRAME_HEADER_SIZE
                            ELSE decoder[s].sv2_buffer.encrypted_len
             /\ (IsRequestedPart(s, data) /\ data.cell.part = "header"
                    /\ Opens(data.cell, codec_state[s]))
                   => /\ ret'.res = "MissingBytes"
                      /\ buffer_size'[s] = data.cell.encrypted_len
             /\ (IsRequestedPart(s, data) /\ data.cell.part = "payload"
                    /\ decoder[s].sv2_buffer # NoCell)
                   => /\ ret'.res = "Ok"
                      /\ ret'.v = <<s, data.cell.sent>>
                      /\ codec_state'[s].recv_n = decoder[s].sv2_buffer.n + 2
                      /\ decoder'[s].sv2_buffer = NoCell
                      /\ decoder'[s].noise_buffer = <<>>]_vars

\* a frame was decoded on the responder's side
C6_Witness ==
    /\ ret.op = "try_decode" /\ ret.res = "Ok"
    /\ ret.v[1] = "responder"
    /\ codec_state["responder"].recv_n = 2

\* the two sides were constructed with matching authority keys
MatchingAuthorityKeys ==
    codec_state["initiator"].authority = codec_state["responder"].authority

\* C7: after step_0 on the initiator and step_1 on the responder, step_2 on
\* the initiator with the responder's payload and matching authority keys
\* succeeds and leaves both codec states in Transport; and the first frame
\* one side encodes is decoded on the other side to the identical message.
HandshakeThenRoundTrip ==
    [][/\ \A f \in HandshakeFrames :
            (/\ ret'.op = "step_2" /\ step_2("initiator", f)
             /\ f = responder_frame /\ f # NoFrame
             /\ codec_state["initiator"].phase = "HandShake"
             /\ codec_state["initiator"].e # 0
             /\ InTransport("responder")
             /\ MatchingAuthorityKeys)
              => (ret'.res = "Ok" /\ \A s \in Sides : codec_state'[s].phase = "Transport")
       /\ \A s \in Sides : \A data \in DecodeInputs(s) :
            (/\ ret'.op = "try_decode" /\ try_decode(s, data)
             /\ InTransport(s) /\ InTransport(Peer(s))
             /\ IsRequestedPart(s, data))
              => /\ (data.cell.part = "header" /\ data.cell.n = 0
                        /\ codec_state[s].recv_n = 0)
                      => ret'.res = "MissingBytes"
                 /\ (data.cell.part = "payload" /\ data.cell.n = 1
                        /\ codec_state[s].recv_n = 1)
                      => (ret'.res = "Ok" /\ ret'.v = <<s, data.cell.sent>>)]_vars

\* both sides are in Transport and the initiator decoded the responder's
\* first frame
C7_Witness ==
    /\ InTransport("initiator") /\ InTransport("responder")
    /\ ret.op = "try_decode" /\ ret.res = "Ok"
    /\ ret.v[1] = "initiator"
    /\ ret.v[2] \in CodecMessages

\* C8: after the handshake every frame one side encodes is decoded by its
\* peer, in the order sent, to the message it was made from: a part of the
\* stream delivered in the size the decoder asked for is never refused.
FramesDecodeInOrder ==
    [][\A s \in Sides : \A data \in DecodeInputs(s) :
          (/\ ret'.op = "try_decode" /\ try_decode(s, data)
           /\ InTransport(s) /\ InTransport(Peer(s))
           /\ IsRequestedPart(s, data))
            => /\ ret'.res \in {"MissingBytes", "Ok"}
               /\ ret'.res = "Ok" => ret'.v = <<s, data.cell.sent>>]_vars

\* C9: a codec state that is in Transport stays in Transport under every
\* call, successful or failing, and the role a codec state was constructed
\* with never changes.
TransportIsIrreversible ==
    [][\A s \in Sides :
          /\ InTransport(s) => codec_state'[s].phase = "Transport"
          /\ codec_state[s].role # "None"
                => codec_state'[s].role = codec_state[s].role]_vars

\* a handshake step was refused on a responder that is already in Transport
C9_Witness ==
    /\ InTransport("responder")
    /\ ret.op = "step_1" /\ ret.res = "FailedHandshakeStep1"
    /\ ret.v[1] = "responder"

\* C10: handshake_complete answers true exactly when the state is in
\* Transport; a state enters Transport only by a successful step_1 on a
\* responder or a successful step_2 on an initiator, so the answer is false
\* on a fresh state, and no construction, step_0 or failed step turns it true.
HandshakeCompleteIffTransport ==
    [][\A s \in Sides :
          /\ (ret'.op = "handshake_complete" /\ handshake_complete(s))
                => ret'.v = <<s, codec_state[s].phase = "Transport">>
          /\ (codec_state'[s].phase = "Transport" /\ ~InTransport(s))
                => /\ ret'.res = "Ok" /\ ret'.v[1] = s
                   /\ \/ ret'.op = "step_1" /\ codec_state[s].role = "Responder"
                      \/ ret'.op = "step_2" /\ codec_state[s].role = "Initiator"]_vars

\* handshake_complete answered true on the initiator
C10_Witness ==
    /\ ret.op = "handshake_complete"
    /\ ret.v = <<"initiator", TRUE>>

\* C11: every try_decode whose bytes are not as long as the size the decoder
\* requires (buffer_size(); no bytes included, when that size is not zero)
\* fails with InvalidDataSize carrying that size and the length supplied,
\* and leaves the decoder's buffer, the required size and the codec state as
\* they were.
WrongSizeIsInvalidDataSize ==
    [][\A s \in Sides :
          ret'.op = "try_decode" =>
             \A data \in DecodeInputs(s) :
                (data.len # buffer_size[s] /\ try_decode(s, data))
                  => (/\ ret' = CodecRet("try_decode", s, "InvalidDataSize",
                                         <<buffer_size[s], data.len>>)
                      /\ decoder' = decoder
                      /\ buffer_size' = buffer_size
                      /\ codec_state' = codec_state)]_vars

MissingBytesKeepsTheFrame ==
    [][\A s \in Sides : \A data \in DecodeInputs(s) :
          (ret'.op = "try_decode" /\ try_decode(s, data)) =>
             /\ ret'.res = "MissingBytes"
                   => /\ buffer_size'[s] > 0
                      /\ buffer_size'[s] = WritableLen(decoder'[s])
                      /\ decoder[s].sv2_buffer # NoCell
                            => decoder'[s].sv2_buffer = decoder[s].sv2_buffer
                      /\ (data.cell # NoCell /\ data.cell.part = "header")
                            => decoder'[s].sv2_buffer = data.cell
             /\ (/\ ret.op = "try_decode" /\ ret.res = "MissingBytes" /\ ret.v[1] = s
                 /\ decoder[s].sv2_buffer # NoCell
                 /\ data.cell # NoCell /\ data.len = buffer_size[s]
                 /\ data.cell.part = "payload"
                 /\ Opens(data.cell, codec_state[s]))
                   => /\ ret'.res = "Ok"
                      /\ ret'.v = <<s, data.cell.sent>>
                      /\ decoder[s].sv2_buffer.msg_type = data.cell.payload.kind]_vars

\* bytes are missing while the decoder holds the header of the frame and the
\* payload is still to be read
C13_Witness ==
    \E s \in Sides :
       /\ ret.op = "try_decode" /\ ret.res = "MissingBytes" /\ ret.v[1] = s
       /\ decoder[s].sv2_buffer.part = "header"
       /\ buffer_size[s] = decoder[s].sv2_buffer.encrypted_len
       /\ wire[s] # <<>>

(***************************************************************************)
(* Properties of the extranonce prefix factories.                          *)
(***************************************************************************)
\* C14: a factory, Extended or Standard, never returns the same prefix
\* twice: a prefix a call returns was returned by no earlier call, failing
\* calls in between included, so that the prefixes returned so far are as
\* many as the calls that returned one.
PrefixesAreUnique ==
    [][/\ (ret'.op = "next_extranonce_prefix" /\ ret'.res = "Ok")
             => (/\ ret'.v[1] \notin issued
                 /\ issued' = issued \cup {ret'.v[1]}
                 /\ returned' = returned + 1)
       /\ (ret'.op = "next_extranonce_prefix" /\ ret'.res # "Ok")
             => (issued' = issued /\ returned' = returned)
       /\ Cardinality(issued') = returned']_vars

\* a Standard factory has returned every prefix of its one-byte space, all
\* distinct, and the call after them failed
C14_Witness ==
    /\ factory.variant = "Standard"
    /\ returned = ByteValues
    /\ Cardinality(issued) = ByteValues
    /\ ret.op = "next_extranonce_prefix"
    /\ ret.res = "FailedToCreateExtranoncePrefix"

\* C15: a prefix returned by next_extranonce_prefix(min_required_len) leaves
\* at least min_required_len rollable bytes in the 32-byte extranonce; when
\* the factory has no such prefix (too little room, or every prefix used)
\* the call fails with FailedToCreateExtranoncePrefix and changes nothing;
\* a factory of allocation size 4 with a 4-byte static prefix fails for 30.
PrefixLeavesRollableBytes ==
    [][ret'.op = "next_extranonce_prefix" =>
          \A n \in MinRequiredLens :
             next_extranonce_prefix(n) =>
                /\ ret'.res = "Ok"
                      => PrefixLen(ret'.v[1]) + n <= FULL_EXTRANONCE_LEN
                /\ (\/ factory.static_len + factory.allocation_size + n
                          > FULL_EXTRANONCE_LEN
                    \/ factory.cursor >= PrefixCapacity(factory.allocation_size))
                      => (/\ ret'.res = "FailedToCreateExtranoncePrefix"
                          /\ UNCHANGED <<factory, issued, returned>>)
                /\ (factory.allocation_size = 4 /\ factory.static_len = 4 /\ n = 30)
                      => ret'.res = "FailedToCreateExtranoncePrefix"]_vars

\* the factory of allocation size 4 with a 4-byte static prefix refused a
\* call after it had returned a prefix
C15_Witness ==
    /\ factory.exists /\ factory.variant = "Extended"
    /\ factory.allocation_size = 4 /\ factory.static_len = 4
    /\ returned > 0
    /\ ret.op = "next_extranonce_prefix"
    /\ ret.res = "FailedToCreateExtranoncePrefix"

\* C16: creating an Extended factory whose static prefix and allocation size
\* together exceed 32 bytes fails with FailedToCreateExtendedExtranonce, and
\* no factory object exists then: no call can return a prefix.
OversizedFactoryIsRefused ==
    [][/\ \A a \in AllocationSizes, sp \in StaticPrefixes :
             (/\ ret'.op = "factory_new"
              /\ StaticLen(sp) + a > FULL_EXTRANONCE_LEN
              /\ ExtendedFactoryNew(a, sp))
               => (/\ ret'.res = "FailedToCreateExtendedExtranonce"
                   /\ ~factory'.exists
                   /\ returned' = 0)
       /\ ~factory.exists
             => (/\ ~ENABLED (\E n \in MinRequiredLens : next_extranonce_prefix(n))
                 /\ ~ENABLED standard_next_extranonce_prefix)]_vars

\* the creation with allocation size 29 and a 4-byte static prefix failed
C16_Witness ==
    /\ ret.op = "factory_new"
    /\ ret.res = "FailedToCreateExtendedExtranonce"
    /\ ~factory.exists
    /\ returned = 0

(***************************************************************************)
(* Properties of concurrent callers.                                       *)
(***************************************************************************)
\* thread t is inside the method op of the channel, past its lock()
InCall(t, op) == pc[t] \in {"lock_job", "body", "return"} /\ arg[t].kind = op

InChannelCall(t) == \E op \in ChannelOps : InCall(t, op)

ChannelCallsAreExclusive ==
    \A t \in Threads :
       InChannelCall(t) =>
          /\ channel_lock = t
          /\ \A u \in Threads \ {t} : ~InChannelCall(u)

JobSetsAndTipUnchanged ==
    UNCHANGED <<future_jobs, active_job, past_jobs, future_template_to_job_id, chain_tip>>

\* C19: under any interleaving of the callers of one channel,
\* on_set_new_prev_hash and validate_share run under the channel's exclusive
\* lock: a thread past the lock() of either holds the Mutex and no other
\* thread is inside a call of the channel; from the moment a thread holds
\* the lock in validate_share until it returns, no step changes the job sets
\* or the chain tip (it sees them as they were before a promotion or as they
\* are after it), and while a thread is inside on_set_new_prev_hash the only
\* steps that change the channel are its own.
LockedCallsAreAtomic ==
    /\ []ChannelCallsAreExclusive
    /\ [][\A t \in Threads :
             /\ (InCall(t, "validate_share") /\ InCall(t, "validate_share")')
                   => JobSetsAndTipUnchanged
             /\ (InCall(t, "on_set_new_prev_hash") /\ ~UNCHANGED chanVars)
                   => (pc[t] = "body" /\ pc'[t] = "return")]_vars

\* a share has been validated and accepted by a thread that still holds the
\* channel's lock while another thread waits for it with a promotion that
\* would succeed
C19_Witness ==
    \E t \in Threads, u \in Threads :
       /\ InCall(t, "validate_share") /\ pc[t] = "return"
       /\ ret.op = "validate_share" /\ ret.res \in AcceptedResults
       /\ channel_lock = t
       /\ pc[u] = "lock_channel" /\ arg[u].kind = "on_set_new_prev_hash"
       /\ future_template_to_job_id[arg[u].msg.template_id] # 0

\* C20: in no reachable state does one thread hold the extended job's lock
\* and the Standard channel's lock at the same time (on_group_channel_job
\* takes the job's lock to clone the job, releases it, and only then takes
\* the channel's lock).
JobAndChannelLocksNeverHeldTogether ==
    \A t \in Threads : ~(job_lock = t /\ channel_lock = t)

(***************************************************************************)
(* Properties of poisoned locks.                                           *)
(***************************************************************************)
\* the Mutexes the method that returned r locks
MutexesOf(r) ==
    IF r.op \in {"update_channel", "on_new_template", "on_set_new_prev_hash",
                 "validate_share"}
    THEN {ChannelMutex}
    ELSE IF r.op = "on_group_channel_job" THEN {ChannelMutex, JobMutex}
    ELSE IF r.op = "get_job_id" THEN {JobMutex}
    ELSE IF r.op \in {"step_0", "step_1", "step_2", "handshake_complete"}
    THEN {StateMutex(r.v[1])}
    ELSE IF r.op = "encode" THEN {EncoderMutex(r.v[1]), StateMutex(r.v[1])}
    ELSE IF r.op = "try_decode" THEN DecoderMutexes(r.v[1]) \cup {StateMutex(r.v[1])}
    ELSE IF r.op = "next_extranonce_prefix" THEN {FactoryMutex}
    ELSE {}

\* the errors a method returns for its arguments before it reaches a lock()
ChecksBeforeLock(op) ==
    IF op = "update_channel" THEN {"BadMaxTarget"}
    ELSE IF op = "step_1" THEN {"BadInitiatorFrame"}
    ELSE IF op = "step_2" THEN {"BadResponderFrame"}
    ELSE {}

\* a method was called on an object one of whose Mutexes is poisoned
CalledOnPoisoned ==
    /\ poisoned' = poisoned
    /\ MutexesOf(ret') \cap poisoned # {}

GuardedStateUnchanged ==
    UNCHANGED <<chanVars, codec_state, decoder, buffer_size, initiator_frame,
                responder_frame, prefixVars>>

FallibleChannelOps ==
    {"update_channel", "on_new_template", "on_set_new_prev_hash",
     "on_set_custom_mining_job", "on_group_channel_job", "get_active_job"}

ObservableStateUnchanged ==
    UNCHANGED <<target, nominal_hashrate, future_jobs, active_job, past_jobs,
                future_template_to_job_id, chain_tip, share_accounting>>

UpdateChannelIsAtomic ==
    [][ret'.op = "update_channel" =>
          \A h \in ErrorDomains.hashrates, v \in ErrorDomains.updates :
             update_channel(h, v) =>
                IF v.some /\ v.len # U256Len
                THEN ret'.res = "BadMaxTarget" /\ UNCHANGED <<target, nominal_hashrate>>
                ELSE IF h <= 0 \/ (v.some /\ v.val > max_target)
                THEN /\ ret'.res = "FailedToUpdateChannel"
                     /\ UNCHANGED <<target, nominal_hashrate>>
                ELSE \/ /\ ret'.res = "FailedToUpdateChannel"
                        /\ UNCHANGED <<target, nominal_hashrate>>
                     \/ /\ ret'.res = "Ok"
                        /\ nominal_hashrate' = h
                        /\ target' <= (IF v.some THEN v.val ELSE max_target)]_vars

\* an update has just been refused on a channel whose ceiling is below the
\* largest max target a caller requests, and the channel still has the
\* target and the hashrate it was opened with
C23_Witness ==
    /\ ret.op = "update_channel" /\ ret.res = "FailedToUpdateChannel"
    /\ opened /\ max_target < MaxTargetVal
    /\ nominal_hashrate > 0 /\ target = InnerHashRateToTarget(nominal_hashrate).val

\* C24: opening a Standard or an Extended channel with a 32-byte max target
\* that the engine refuses fails with the engine's own error
\* (InvalidNominalHashrate for a hashrate that is not positive,
\* RequestedMaxTargetOutOfRange for a max target out of range,
\* RequestedMinExtranonceSizeTooLarge, Extended only, for a rollable size
\* that does not fit), and no failed open creates a channel object.
OpenReportsItsOwnError ==
    [][ret'.op = "new" =>
          /\ ret'.res # "Ok" => (~opened' /\ UNCHANGED chanVars)
          /\ \A v \in ErrorDomains.max_targets, h \in ErrorDomains.hashrates :
                /\ (StandardNew(v, h, 2) /\ TargetFromVec(v).ok) =>
                      LET r == InnerNewForPool("Standard", v.val, h, 0, 0) IN
                      r.err # "None" => ret'.res = r.err
                /\ \A mr \in ErrorDomains.min_rollable :
                      (ExtendedNew(v, h, TRUE, 4, mr, 2) /\ TargetFromVec(v).ok) =>
                         LET r == InnerNewForPool("Extended", v.val, h, 4, mr) IN
                         r.err # "None" => ret'.res = r.err]_vars

(***************************************************************************)
(* Properties of the message translation.                                  *)
(***************************************************************************)
\* a message of the boundary that translates comes back as it was
ExternalRoundTrip ==
    (ret.op = "sv2_message_to_inner" /\ ret.res = "Ok")
       => inner_to_sv2_message(ret.v[2]) = ret.v[1]

\* a message of the engine comes back as it was
InternalRoundTrip ==
    ret.op = "inner_to_sv2_message"
       => LET c == sv2_message_to_inner(ret.v[1]) IN c.ok /\ c.msg = ret.v[2]

\* C25: the translation is lossless in both directions: a message of the
\* boundary that sv2_message_to_inner accepts is what inner_to_sv2_message
\* makes of its translation, and a message of the engine, string fields that
\* are not valid UTF-8 included, is what sv2_message_to_inner makes of its
\* translation.
TranslationIsLossless == ExternalRoundTrip /\ InternalRoundTrip

\* the job sets after the future job j was promoted for the template tpl
PromotedExactly(j, tpl) ==
    /\ active_job' = j
    /\ future_jobs' = future_jobs \ {j}
    /\ future_template_to_job_id' = [future_template_to_job_id EXCEPT ![tpl] = 0]
    /\ IF active_job = NoJob THEN past_jobs' = past_jobs
       ELSE /\ active_job \in PastSet(past_jobs')
            /\ PastSet(past_jobs') \subseteq PastSet(past_jobs) \cup {active_job}

PriorJob == IF past_jobs = <<>> THEN NoJob ELSE past_jobs[Len(past_jobs)]

\* C27: a share submitted against the job that was active until the most
\* recent job change is validated on its merits: validate_share never
\* answers InvalidJobId or Stale for that job id.
PriorJobIsStillValidatable ==
    [][(ret'.op = "validate_share" /\ PriorJob # NoJob) =>
          \A sh \in JobDomains.shares :
             (sh.job_id = PriorJob.id /\ validate_share(sh)) =>
                ret'.res \notin {"InvalidJobId", "Stale"}]_vars

\* a share against the superseded job, which is not the active job and not
\* the only past job, was accepted
C27_Witness ==
    /\ ret.op = "validate_share" /\ ret.res \in AcceptedResults
    /\ Len(past_jobs) >= 2
    /\ ret.credited.job_id = PriorJob.id
    /\ active_job.id # PriorJob.id

\* a share that passes every check validate_share makes before it asks for
\* the chain tip
PassesEarlierChecks(sh) ==
    LET j == ResolveJob(Store, sh.job_id) IN
    /\ sv2_message_to_inner(sh).ok
    /\ j # NoJob /\ ~IsStale(Store, sh.job_id)
    /\ ShareHash(sh, j) <= target
    /\ sh.sequence_number \notin share_accounting.seen
    /\ ~(sh.rolled /\ ~version_rolling_allowed)

\* C28 as stated: on a channel without a chain tip every well-formed
\* submission, whatever its job id, fails with NoChainTip.
NoTipAlwaysNoChainTip ==
    (IsMiningChannel /\ ~chain_tip.set) =>
       \A sh \in Shares :
          (sh.kind = ShareKindOf(kind) /\ sv2_message_to_inner(sh).ok)
             => validate_share_result(sh).res = "NoChainTip"

\* C28: on a channel that has no chain tip validate_share accepts no share
\* and credits nothing: every submission fails, with NoChainTip when the
\* share passes the checks made before the chain tip is asked for (known job
\* id, not stale, meets the channel's target, new sequence number, version
\* rolling allowed), and with the error of the first of those checks it
\* fails otherwise.
NoTipNeverAccepts ==
    (IsMiningChannel /\ ~chain_tip.set) =>
       \A sh \in Shares :
          sh.kind = ShareKindOf(kind) =>
             LET o == validate_share_result(sh) IN
             /\ o.res \notin ShareResults
             /\ o.acct = share_accounting
             /\ IF PassesEarlierChecks(sh) THEN o.res = "NoChainTip"
                ELSE o.res \in {"FailedToConvertMessage", "InvalidJobId", "Stale",
                                "DoesNotMeetTarget", "DuplicateShare",
                                "VersionRollingNotAllowed"}

\* a share against the active job of a channel without a chain tip was
\* refused with NoChainTip
C28_Witness ==
    /\ ret.op = "validate_share" /\ ret.res = "NoChainTip"
    /\ ~chain_tip.set /\ active_job # NoJob
    /\ share_accounting = NoAccounting

\* C29: on a channel opened with share_batch_size = B an accepted share is
\* answered ValidWithAcknowledgement exactly when it is the B-th share
\* accepted since the last acknowledgement (since the channel was opened,
\* for the first), and Valid otherwise; the acknowledgement carries the
\* share's sequence number, the accepted count and the difficulty sum as
\* they stand after the share, and Valid carries nothing.
AcknowledgementEveryBatch ==
    [][(ret'.op = "validate_share" /\ ret'.res \in AcceptedResults) =>
          LET after == share_accounting' IN
          /\ after.shares_accepted = share_accounting.shares_accepted + 1
          /\ after.last_share_sequence_number = ret'.credited.sequence_number
          /\ after.share_work_sum = share_accounting.share_work_sum + DifficultyOf(target)
          /\ ret'.res = "ValidWithAcknowledgement"
                <=> after.shares_accepted % share_batch_size = 0
          /\ ret'.res = "ValidWithAcknowledgement"
                <=> share_accounting.since_ack + 1 = share_batch_size
          /\ ret'.v = IF ret'.res = "Valid" THEN <<>>
                      ELSE <<after.last_share_sequence_number, after.shares_accepted,
                             after.share_work_sum>>]_vars

\* on a channel with a batch size of 2 the fourth accepted share was
\* acknowledged with the counters after it
C29_Witness ==
    /\ ret.op = "validate_share" /\ ret.res = "ValidWithAcknowledgement"
    /\ share_batch_size = 2
    /\ share_accounting.shares_accepted = 4
    /\ ret.v = <<ret.credited.sequence_number, 4, share_accounting.share_work_sum>>

\* C30: a successful on_set_custom_mining_job happens on an Extended
\* channel and makes the custom job, under a job id no other job of the
\* channel has, the active job at once, with no template and no prev hash
\* needed and with the future jobs and the chain tip left as they were;
\* get_job_origin reports SetCustomMiningJob for it, and the job that was
\* active (if any) is a past job afterwards, so one job is active.
CustomJobBecomesActive ==
    [][(ret'.op = "on_set_custom_mining_job" /\ ret'.res = "Ok") =>
          /\ kind = "Extended"
          /\ active_job' # NoJob /\ active_job' # active_job
          /\ active_job'.id = job_id_factory
          /\ get_job_origin(active_job') = "SetCustomMiningJob"
          /\ future_jobs' = future_jobs
          /\ future_template_to_job_id' = future_template_to_job_id
          /\ chain_tip' = chain_tip
          /\ active_job'.id \notin JobIdsOf(future_jobs' \cup PastSet(past_jobs'))
          /\ IF active_job = NoJob THEN past_jobs' = past_jobs
             ELSE past_jobs' = Append(past_jobs, active_job)]_vars

\* the first job of an Extended channel, which has seen no template and no
\* prev hash, is a custom job and is active
C30_Witness ==
    /\ ret.op = "on_set_custom_mining_job" /\ ret.res = "Ok"
    /\ ~chain_tip.set /\ future_jobs = {} /\ past_jobs = <<>>
    /\ active_job # NoJob /\ get_job_origin(active_job) = "SetCustomMiningJob"

\* the elements of a Vec
Elements(v) == {v[i] : i \in DOMAIN v}

\* C31: on a Group channel add_standard_channel_id and
\* remove_standard_channel_id always answer Ok and change the member set
\* only: after add(id) the members are the former ones and id, after
\* remove(id) the former ones without id (so adding a member again and
\* removing an absent id change nothing); get_standard_channel_ids returns
\* every member once and nothing else and changes nothing.
MembersAreExactlyAddedNotRemoved ==
    [][/\ \A id \in MemberIds :
             /\ add_standard_channel_id(id) =>
                   /\ ret'.res = "Ok"
                   /\ standard_channel_ids' = standard_channel_ids \cup {id}
                   /\ UNCHANGED notMemberVars
             /\ remove_standard_channel_id(id) =>
                   /\ ret'.res = "Ok"
                   /\ standard_channel_ids' = standard_channel_ids \ {id}
                   /\ UNCHANGED notMemberVars
       /\ ret'.op \in {"add_standard_channel_id", "remove_standard_channel_id"} =>
             ret'.res = "Ok" /\ UNCHANGED notMemberVars
       /\ ret'.op = "get_standard_channel_ids" =>
             /\ ret'.res = "Ok"
             /\ Elements(ret'.v) = standard_channel_ids
             /\ Len(ret'.v) = Cardinality(standard_channel_ids)
             /\ UNCHANGED chanVars]_vars

\* the getter returned the two members of a Group channel that has an
\* active job
C31_Witness ==
    /\ kind = "Group" /\ active_job # NoJob
    /\ ret.op = "get_standard_channel_ids" /\ Len(ret.v) = 2
    /\ standard_channel_ids = {1, MaxMembers}

\* C32: get_active_job on a Group, Standard or Extended channel answers
\* FailedToGetActiveJob exactly when the channel has no active job and
\* answers Ok with the active job otherwise; it changes nothing of the
\* channel; and a channel whose last call was a successful
\* on_set_new_prev_hash or on_set_custom_mining_job has an active job.
ActiveJobOrFailure ==
    /\ [](((ret.op \in {"on_set_new_prev_hash", "on_set_custom_mining_job"})
            /\ ret.res = "Ok") => active_job # NoJob)
    /\ [][ret'.op = "get_active_job" =>
             /\ ret'.res = "FailedToGetActiveJob" <=> active_job = NoJob
             /\ ret'.res = "Ok" <=> active_job # NoJob
             /\ ret'.res = "Ok" => ret'.v = <<active_job>>
             /\ UNCHANGED chanVars]_vars

\* get_active_job returned the job a Group channel promoted
C32_Witness ==
    /\ kind = "Group" /\ chain_tip.set
    /\ ret.op = "get_active_job" /\ ret.res = "Ok"
    /\ ret.v = <<active_job>> /\ active_job # NoJob

HandshakeSteps == {"step_0", "step_1", "step_2"}

\* the role a handshake step belongs to, and the errors it has
RoleOfStep(op) == IF op = "step_1" THEN "Responder" ELSE "Initiator"
ErrorsOfStep(op) ==
    CASE op = "step_0" -> {"FailedHandshakeStep0"}
      [] op = "step_1" -> {"BadInitiatorFrame", "FailedHandshakeStep1"}
      [] op = "step_2" -> {"BadResponderFrame", "FailedHandshakeStep2"}

\* C33: a handshake step answers Ok only on a state of its role (Initiator
\* for step_0 and step_2, Responder for step_1) that is still handshaking;
\* on the other role or in Transport it fails; it fails with an error of
\* its own (FailedHandshakeStep0/1/2, or BadInitiatorFrame /
\* BadResponderFrame for a payload that is not 64 / 234 bytes long) and a
\* failing step leaves the codec state, the decoder and the payloads made so
\* far as they were.
HandshakeStepsAreRestricted ==
    [][ret'.op \in HandshakeSteps =>
          LET s == ret'.v[1]
              st == codec_state[s]
          IN  /\ ret'.res = "Ok" =>
                    st.role = RoleOfStep(ret'.op) /\ st.phase = "HandShake"
              /\ ret'.res # "Ok" =>
                    /\ ret'.res \in ErrorsOfStep(ret'.op)
                    /\ UNCHANGED codecVars
              /\ \A f \in HandshakeFrames :
                    /\ (step_1(s, f) /\ f.len # ELLSWIFT_ENCODING_SIZE)
                          => ret'.res = "BadInitiatorFrame"
                    /\ (step_2(s, f) /\ f.len # INITIATOR_EXPECTED_HANDSHAKE_MESSAGE_SIZE)
                          => ret'.res = "BadResponderFrame"]_vars

\* step_2 was refused on the responder's state, which is in Transport, while
\* the initiator is still handshaking
C33_Witness ==
    /\ ret.op = "step_2" /\ ret.res = "FailedHandshakeStep2"
    /\ ret.v[1] = "responder"
    /\ codec_state["responder"].phase = "Transport"
    /\ codec_state["initiator"].phase = "HandShake"

\* C34: on a state in Transport, starting from a fresh decoder, a caller
\* that hands try_decode exactly buffer_size() bytes of a stream a
\* conforming peer sealed is never answered InvalidDataSize or any other
\* error than MissingBytes; the bytes the decoder takes next are always a
\* whole part of the stream; Ok comes with the payload of a frame and
\* carries the message that was sent; and every frame that has arrived is
\* decoded after finitely many calls, the next frames like the first.
ReadLoopProgress ==
    /\ [][ret'.op = "try_decode" =>
             LET s == ret'.v[1] IN
             /\ ret'.res \in {"MissingBytes", "Ok"}
             /\ ret'.res = "Ok" =>
                   /\ wire[s] # <<>> /\ Head(wire[s]).part = "payload"
                   /\ ret'.v[2] = Head(wire[s]).sent
                   /\ wire'[s] = Tail(wire[s])]_vars
    /\ [](\A s \in Sides :
             (codec_state[s].phase = "Transport" /\ wire[s] # <<>>
                 /\ buffer_size[s] # 0)
                => Head(wire[s]).len = buffer_size[s])
    /\ \A s \in Sides :
          (codec_state[s].phase = "Transport" /\ wire[s] # <<>>)
             ~> (ret.op = "try_decode" /\ ret.res = "Ok" /\ ret.v[1] = s)

\* the responder decoded its second frame and has asked for the header of
\* a third
C34_Witness ==
    /\ ret.op = "try_decode" /\ ret.res = "MissingBytes" /\ ret.v[1] = "responder"
    /\ codec_state["responder"].recv_n = 4
    /\ buffer_size["responder"] = ENCRYPTED_SV2_FRAME_HEADER_SIZE
    /\ wire["responder"] = <<>>

MessageIsNotErrors ==
    {"MessageIsNotNewTemplate", "MessageIsNotSetNewPrevHash",
     "MessageIsNotSetCustomMiningJob", "MessageIsNotSubmitSharesStandard",
     "MessageIsNotSubmitSharesExtended"}

\* the internal kind each channel operation expects of its argument
ExpectedInnerKind(k) ==
    CASE k = "NewTemplate" -> "TemplateDistribution.NewTemplate"
      [] k = "SetNewPrevHashTemplateDistribution" -> "TemplateDistribution.SetNewPrevHash"
      [] k = "SetCustomMiningJob" -> "Mining.SetCustomMiningJob"
      [] k = "SubmitSharesStandard" -> "Mining.SubmitSharesStandard"
      [] k = "SubmitSharesExtended" -> "Mining.SubmitSharesExtended"

ChannelArguments ==
    ErrorDomains.templates \cup ErrorDomains.prev_hashes
       \cup ErrorDomains.custom_jobs \cup ErrorDomains.shares

\* C36: the internal message sv2_message_to_inner makes of the argument of
\* on_new_template, on_set_new_prev_hash, on_set_custom_mining_job and
\* validate_share is of the kind the operation expects whenever the
\* translation succeeds, so no call returns a MessageIsNot... error; a call
\* that did return one would have left the channel as it was.
WellTypedCallIsNeverMistyped ==
    /\ [](ret.res \notin MessageIsNotErrors)
    /\ [](\A m \in ChannelArguments :
             LET c == sv2_message_to_inner(m) IN
             c.ok => c.msg.kind = ExpectedInnerKind(m.kind))
    /\ [][ret'.res \in MessageIsNotErrors => UNCHANGED chanVars]_vars

\* an Extended channel took a template, a prev hash, a custom job and a
\* share, each translated and accepted
C36_Witness ==
    /\ kind = "Extended" /\ chain_tip.set
    /\ active_job # NoJob /\ active_job.origin = "SetCustomMiningJob"
    /\ \E j \in PastSet(past_jobs) : j.origin = "NewTemplate"
    /\ ret.op = "validate_share" /\ ret.res \in AcceptedResults

ShareValidationErrors ==
    {"Invalid", "Stale", "InvalidJobId", "DoesNotMeetTarget",
     "VersionRollingNotAllowed", "DuplicateShare", "InvalidCoinbase", "NoChainTip"}

\* C37: the accepted-count starts at zero and moves only in a validate_share
\* call that returned Valid or ValidWithAcknowledgement, by exactly one, so
\* it equals the number of such calls; the accepted-count and the difficulty
\* sum never decrease; a call that returned a share-validation error left
\* the accepted-count, the difficulty sum, the last sequence number and the
\* job sets as they were.
ShareAccountingFollowsResults ==
    /\ share_accounting.shares_accepted = 0
    /\ [][LET accepting == /\ ret'.op = "validate_share"
                           /\ ret'.res \in AcceptedResults IN
          /\ share_accounting'.shares_accepted =
                share_accounting.shares_accepted + (IF accepting THEN 1 ELSE 0)
          /\ share_accounting'.share_work_sum >= share_accounting.share_work_sum
          /\ (ret'.op = "validate_share" /\ ret'.res \in ShareValidationErrors)
                => /\ share_accounting'.shares_accepted = share_accounting.shares_accepted
                   /\ share_accounting'.share_work_sum = share_accounting.share_work_sum
                   /\ share_accounting'.last_share_sequence_number
                         = share_accounting.last_share_sequence_number
                   /\ UNCHANGED <<future_jobs, active_job, past_jobs,
                                  future_template_to_job_id>>]_vars

\* a channel that accepted two shares and then refused a share that does
\* not meet its target
C37_Witness ==
    /\ share_accounting.shares_accepted = 2
    /\ share_accounting.share_work_sum > 0
    /\ ret.op = "validate_share" /\ ret.res = "DoesNotMeetTarget"

\* C38: an encode call, whether it returns the frame or an error, leaves the
\* codec state it was given (phase, keys and cipher counters) exactly as it
\* was, and the state of the other side too.
EncodeLeavesCodecStateUnchanged ==
    [][ret'.op = "encode" => codec_state' = codec_state]_vars

\* the initiator sealed a frame in Transport and its sending counter is
\* still where the handshake left it
C38_Witness ==
    /\ ret.op = "encode" /\ ret.res = "Ok" /\ ret.v[1] = "initiator"
    /\ codec_state["initiator"].phase = "Transport"
    /\ codec_state["initiator"].send_n = 0
    /\ Len(wire["responder"]) = 2

(***************************************************************************)
(* Properties of the locks.                                                *)
(***************************************************************************)
\* C39: when try_decode writes its clone back, the codec state is still the
\* state it cloned: no other thread's change to the state (a handshake step,
\* a try_decode through the other decoder) has come in between, so the
\* write-back overwrites nothing but the call's own starting point.
DecodeWriteBackLosesNothing ==
    [][\A t \in Threads :
          (pc[t] = "store_state" /\ pc'[t] = "return")
             => codec_state[LockSide] = arg[t].cloned]_vars

\* the Mutex a thread is about to lock, by the name of its kind
Wants(t) ==
    CASE pc[t] = "lock_decoder" -> "decoder"
      [] pc[t] = "lock_buffer_size" -> "buffer_size"
      [] pc[t] = "lock_encoder" -> "encoder"
      [] pc[t] \in {"clone_state", "store_state", "lock_state"} -> "state"
      [] pc[t] = "lock_channel" -> "channel"
      [] pc[t] = "lock_job" -> "job"
      [] OTHER -> "none"

\* the order the locks are taken in: <<a, b>> when a guard of a may be held
\* while b is asked for
LockOrder ==
    {<<"decoder", "buffer_size">>, <<"decoder", "state">>,
     <<"buffer_size", "state">>, <<"encoder", "state">>, <<"channel", "job">>}

====
